---- MODULE Spec2Model ----
(***************************************************************************)
(* Renderer dispatch of the server-side component pipeline: the path       *)
(* filter (createFilter), the renderer registration hook (addRenderer),    *)
(* the renderers' check() capability and the renderer selection of         *)
(* renderFrameworkComponent().                                             *)
(*                                                                         *)
(* Strings are sequences of tokens (a path separator, a dot, a file-name   *)
(* part), so that normalisation, glob matching and the extension split     *)
(* are computed and not assumed.                                           *)
(***************************************************************************)
EXTENDS Integers, Sequences, FiniteSets, TLC

(* ---------------------------------------------------------------------- *)
(* Bounds                                                                  *)
(* ---------------------------------------------------------------------- *)

\* Number of addRenderer calls made during astro:config:setup.
MaxRenderers == 2

\* Concurrent component renders (render-tree siblings, concurrent requests).
Procs == {1, 2}

(* ---------------------------------------------------------------------- *)
(* JavaScript values                                                       *)
(* ---------------------------------------------------------------------- *)

\* Tokens with a meaning of their own in the code below.
Backslash == "\\"

NullByte == "NUL"

Str(chars) == [type |-> "string", chars |-> chars]

Undefined == [type |-> "undefined", chars |-> <<>>]

\* null (typeof null is 'object') and the number 42.
Null == [type |-> "object", chars |-> <<>>]

FortyTwo == [type |-> "number", chars |-> <<"42">>]

\* JavaScript truthiness of a string-or-undefined value: '' and undefined
\* are falsy.
Truthy(v) == v.type = "string" /\ v.chars # <<>>

(* ---------------------------------------------------------------------- *)
(* createFilter                                                            *)
(* ---------------------------------------------------------------------- *)

\* slash() returning its argument.
normalizePath_identity(chars) == chars

\* slash(): every backslash becomes a forward slash.
normalizePath(chars) ==
    [i \in 1..Len(chars) |-> IF chars[i] = Backslash THEN "/" ELSE chars[i]]

\* FilterPattern: null, one pattern, or an array of patterns.
NullPattern == [tag |-> "null", ps |-> <<>>]

OnePattern(p) == [tag |-> "one", ps |-> <<p>>]

ArrayPattern(ps) == [tag |-> "array", ps |-> ps]

Glob(chars) == [kind |-> "glob", src |-> chars]

\* ensureArray returning [] for a pattern that is not an array.
ensureArray_arrayOnly(thing) ==
    IF thing.tag = "array" THEN thing.ps ELSE <<>>

ensureArray(thing) ==
    IF thing.tag = "array" THEN thing.ps
    ELSE IF thing.tag = "null" THEN <<>>
    ELSE thing.ps

\* JavaScript truthiness of a FilterPattern: null and the empty string are
\* falsy, an array (empty or not) is truthy.
TruthyPattern(thing) ==
    CASE thing.tag = "null" -> FALSE
      [] thing.tag = "array" -> TRUE
      [] OTHER -> ~(thing.ps[1].kind = "glob" /\ thing.ps[1].src = <<>>)

\* picomatch(glob, {dot: true}) on a token sequence: "**" followed by "/"
\* spans any number of leading directories, a trailing "**" spans anything,
\* "*" spans any run of tokens without a separator, every other token
\* matches itself.
RECURSIVE picomatch(_, _)
picomatch(glob, what) ==
    IF glob = <<>> THEN what = <<>>
    ELSE IF Head(glob) = "**" THEN
        IF Len(glob) = 1 THEN TRUE
        ELSE IF glob[2] = "/" THEN
            \/ picomatch(Tail(Tail(glob)), what)
            \/ \E k \in 1..Len(what) :
                  /\ what[k] = "/"
                  /\ picomatch(Tail(Tail(glob)), SubSeq(what, k + 1, Len(what)))
        ELSE \E k \in 0..Len(what) :
                  picomatch(Tail(glob), SubSeq(what, k + 1, Len(what)))
    ELSE IF Head(glob) = "*" THEN
        \E k \in 0..Len(what) :
            /\ \A i \in 1..k : what[i] # "/"
            /\ picomatch(Tail(glob), SubSeq(what, k + 1, Len(what)))
    ELSE /\ what # <<>>
         /\ Head(what) = Head(glob)
         /\ picomatch(Tail(glob), Tail(what))

\* toMatcher(pattern).test(what) for a glob string: the pattern is
\* normalised, then compiled by picomatch.
toMatcher(pattern, what) == picomatch(normalizePath(pattern.src), what)

\* A RegExp object: the tokens it searches for, whether it ends with $, and
\* its g and y flags.  toMatcher returns a RegExp as it is.
RegExp(src, end, global, sticky) ==
    [kind |-> "regexp", src |-> src, end |-> end, global |-> global,
     sticky |-> sticky]

\* RegExp.prototype.test(what) of a RegExp whose lastIndex is li[re]: a
\* pattern with the g or y flag searches from lastIndex (y: only there),
\* leaves lastIndex after the match and sets it to 0 on a failure; a
\* pattern without these flags ignores lastIndex.
RegExpTest(re, what, li) ==
    LET stateful == re.global \/ re.sticky
        from == IF stateful THEN li[re] ELSE 0
        at(i) == /\ i + Len(re.src) <= Len(what)
                 /\ SubSeq(what, i + 1, i + Len(re.src)) = re.src
                 /\ re.end => i + Len(re.src) = Len(what)
        found == {i \in from..Len(what) : at(i) /\ (re.sticky => i = from)}
        first == CHOOSE i \in found : \A j \in found : i <= j
    IN  IF found = {}
        THEN [ok |-> FALSE, li |-> IF stateful THEN [li EXCEPT ![re] = 0] ELSE li]
        ELSE [ok |-> TRUE,
              li |-> IF stateful THEN [li EXCEPT ![re] = first + Len(re.src)] ELSE li]

\* The loop body without the lastIndex reset.
matcherTest_noReset(matcher, pathId, li) ==
    IF matcher.kind = "regexp"
    THEN RegExpTest(matcher, pathId, li)
    ELSE [ok |-> toMatcher(matcher, pathId), li |-> li]

\* The body of the two loops of createFilter: lastIndex of a RegExp is
\* reset, then the matcher is tested.
matcherTest(matcher, pathId, li) ==
    IF matcher.kind = "regexp"
    THEN RegExpTest(matcher, pathId, [li EXCEPT ![matcher] = 0])
    ELSE [ok |-> toMatcher(matcher, pathId), li |-> li]

\* for (const matcher of matchers) { ... if (matcher.test(pathId)) return }:
\* whether a matcher matched, and the lastIndex values the loop leaves.
RECURSIVE someMatch(_, _, _)
someMatch(matchers, pathId, li) ==
    IF matchers = <<>> THEN [hit |-> FALSE, li |-> li]
    ELSE LET r == matcherTest(Head(matchers), pathId, li)
         IN  IF r.ok THEN [hit |-> TRUE, li |-> r.li]
             ELSE someMatch(Tail(matchers), pathId, r.li)

\* typeof id === 'string' holding of every value.
typeofString_any(id) == TRUE

typeofString(id) == id.type = "string"

\* id.includes(ch) finding nothing.
includes_never(id, ch) ==
    IF id.type # "string" THEN "throw" ELSE "false"

\* id.includes(ch): a TypeError on a value that is not a string.
includes(id, ch) ==
    IF id.type # "string" THEN "throw"
    ELSE IF ch \in {id.chars[i] : i \in 1..Len(id.chars)} THEN "true"
    ELSE "false"

\* What a call of the filter function does: it returns true or false or
\* throws, and leaves the lastIndex values li.
Returns(value, li) == [returns |-> value, li |-> li]

\* createFilter with `return true` as its last statement.
createFilter_passThrough(include, exclude, id, li) ==
    LET includeMatchers == ensureArray(include)
        excludeMatchers == ensureArray(exclude)
        hasNull == includes(id, NullByte)
    IN  IF Len(includeMatchers) = 0 /\ Len(excludeMatchers) = 0
        THEN IF ~typeofString(id) THEN Returns("false", li)
             ELSE Returns(IF hasNull = "false" THEN "true"
                          ELSE IF hasNull = "true" THEN "false" ELSE "throw", li)
        ELSE IF ~typeofString(id) THEN Returns("false", li)
        ELSE IF hasNull # "false"
        THEN Returns(IF hasNull = "true" THEN "false" ELSE "throw", li)
        ELSE LET pathId == normalizePath(id.chars)
                 ex == someMatch(excludeMatchers, pathId, li)
                 inc == someMatch(includeMatchers, pathId, ex.li)
             IN  IF ex.hit THEN Returns("false", ex.li)
                 ELSE Returns("true", inc.li)

\* createFilter with the include loop before the exclude loop.
createFilter_includeFirst(include, exclude, id, li) ==
    LET includeMatchers == ensureArray(include)
        excludeMatchers == ensureArray(exclude)
        hasNull == includes(id, NullByte)
    IN  IF Len(includeMatchers) = 0 /\ Len(excludeMatchers) = 0
        THEN IF ~typeofString(id) THEN Returns("false", li)
             ELSE Returns(IF hasNull = "false" THEN "true"
                          ELSE IF hasNull = "true" THEN "false" ELSE "throw", li)
        ELSE IF ~typeofString(id) THEN Returns("false", li)
        ELSE IF hasNull # "false"
        THEN Returns(IF hasNull = "true" THEN "false" ELSE "throw", li)
        ELSE LET pathId == normalizePath(id.chars)
                 inc == someMatch(includeMatchers, pathId, li)
                 ex == someMatch(excludeMatchers, pathId, inc.li)
             IN  IF inc.hit THEN Returns("true", inc.li)
                 ELSE IF ex.hit THEN Returns("false", ex.li)
                 ELSE Returns(IF Len(includeMatchers) = 0 THEN "true" ELSE "false",
                              ex.li)

\* createFilter with `return false` as its last statement.
createFilter_noDefault(include, exclude, id, li) ==
    LET includeMatchers == ensureArray(include)
        excludeMatchers == ensureArray(exclude)
        hasNull == includes(id, NullByte)
    IN  IF Len(includeMatchers) = 0 /\ Len(excludeMatchers) = 0
        THEN IF ~typeofString(id) THEN Returns("false", li)
             ELSE Returns(IF hasNull = "false" THEN "true"
                          ELSE IF hasNull = "true" THEN "false" ELSE "throw", li)
        ELSE IF ~typeofString(id) THEN Returns("false", li)
        ELSE IF hasNull # "false"
        THEN Returns(IF hasNull = "true" THEN "false" ELSE "throw", li)
        ELSE LET pathId == normalizePath(id.chars)
                 ex == someMatch(excludeMatchers, pathId, li)
                 inc == someMatch(includeMatchers, pathId, ex.li)
             IN  IF ex.hit THEN Returns("false", ex.li)
                 ELSE IF inc.hit THEN Returns("true", inc.li)
                 ELSE Returns("false", inc.li)

\* createFilter(include, exclude)(id), the RegExp objects among the patterns
\* having the lastIndex values li.  Without any pattern the filter is
\* typeof id === 'string' && !id.includes('\0'); otherwise the type and
\* null-byte tests come first, then the exclude loop, then the include
\* loop, then `return !includeMatchers.length`.
createFilter(include, exclude, id, li) ==
    LET includeMatchers == ensureArray(include)
        excludeMatchers == ensureArray(exclude)
        hasNull == includes(id, NullByte)
    IN  IF Len(includeMatchers) = 0 /\ Len(excludeMatchers) = 0
        THEN IF ~typeofString(id) THEN Returns("false", li)
             ELSE Returns(IF hasNull = "false" THEN "true"
                          ELSE IF hasNull = "true" THEN "false" ELSE "throw", li)
        ELSE IF ~typeofString(id) THEN Returns("false", li)
        ELSE IF hasNull # "false"
        THEN Returns(IF hasNull = "true" THEN "false" ELSE "throw", li)
        ELSE LET pathId == normalizePath(id.chars)
                 ex == someMatch(excludeMatchers, pathId, li)
                 inc == someMatch(includeMatchers, pathId, ex.li)
             IN  IF ex.hit THEN Returns("false", ex.li)
                 ELSE IF inc.hit THEN Returns("true", inc.li)
                 ELSE Returns(IF Len(includeMatchers) = 0 THEN "true" ELSE "false",
                              inc.li)

(* ---------------------------------------------------------------------- *)
(* Source files, components and integration options                        *)
(* ---------------------------------------------------------------------- *)

WoofFile == <<"/", "src", "/", "WoofCounter", ".", "woof", ".", "jsx">>

MeowFile == <<"/", "src", "/", "MeowCounter", ".", "meow", ".", "jsx">>

LegacyFile == <<"/", "src", "/", "Legacy", ".", "meow", ".", "jsx">>

BrokenFile == <<"/", "src", "/", "Broken", ".", "jsx">>

WidgetFile == <<"/", "src", "/", "Widget", ".", "tsx">>

CardFile == <<"/", "src", "/", "Card", ".", "vue">>

PostFile == <<"/", "src", "/", "Post", ".", "mdx">>

\* Names under which integrations register a renderer; "astro:jsx" is the
\* host's own template renderer.
RendererNames == {"woof", "meow", "astro:jsx"}

NoTag == "none"

\* A component value: whether it is a function, the renderer name set on it
\* by __astro_tag_component__ (or none), the module it is exported from and
\* what the try-render part of each renderer's check() does with it.
ComponentValue(id, isFunction, tag, file, woof, meow, jsx) ==
    [id |-> id, isFunction |-> isFunction, tag |-> tag, file |-> file,
     tryRender |-> [n \in RendererNames |->
                      IF n = "woof" THEN woof ELSE IF n = "meow" THEN meow ELSE jsx]]

WoofCounter == ComponentValue("WoofCounter", TRUE, NoTag, WoofFile, "true", "true", "false")

MeowCounter == ComponentValue("MeowCounter", TRUE, NoTag, MeowFile, "true", "true", "false")

Legacy == ComponentValue("Legacy", TRUE, NoTag, LegacyFile, "throw", "true", "false")

Broken == ComponentValue("Broken", TRUE, NoTag, BrokenFile, "throw", "throw", "false")

Widget == ComponentValue("Widget", TRUE, NoTag, WidgetFile, "false", "throw", "false")

Card == ComponentValue("Card", TRUE, NoTag, CardFile, "false", "false", "false")

Post == ComponentValue("Post", TRUE, "astro:jsx", PostFile, "true", "true", "true")

Orphan == ComponentValue("Orphan", TRUE, "ghost", WoofFile, "true", "true", "false")

Markup == ComponentValue("Markup", FALSE, NoTag, CardFile, "true", "true", "true")

Components ==
    {WoofCounter, MeowCounter, Legacy, Broken, Widget, Card, Post, Orphan, Markup}

\* How a template uses a component: <C />, <C client:load /> or
\* <C client:only="name" />.
Usage(directive, value) == [directive |-> directive, value |-> value]

Usages ==
    {Usage("none", ""), Usage("load", ""), Usage("only", "woof"), Usage("only", "meow"),
     Usage("only", "vue")}

\* The include/exclude options given to the woof and meow integrations.
Options(wi, we, mi, me) ==
    [n \in {"woof", "meow"} |->
        IF n = "woof" THEN [include |-> wi, exclude |-> we]
        ELSE [include |-> mi, exclude |-> me]]

WoofGlob == Glob(<<"**", "/", "*", ".", "woof", ".", "jsx">>)

MeowGlob == Glob(<<"**", "/", "*", ".", "meow", ".", "jsx">>)

OptionSets ==
    { Options(NullPattern, NullPattern, NullPattern, NullPattern),
      Options(OnePattern(WoofGlob), NullPattern, OnePattern(MeowGlob), NullPattern),
      Options(NullPattern, ArrayPattern(<<MeowGlob>>), NullPattern, NullPattern) }

(* ---------------------------------------------------------------------- *)
(* Patterns and inputs of a filter                                         *)
(* ---------------------------------------------------------------------- *)

TsGlob == Glob(<<"**", "/", "*", ".", "ts">>)

TsxGlob == Glob(<<"**", "/", "*", ".", "tsx">>)

JsxGlob == Glob(<<"**", "/", "*", ".", "jsx">>)

TestGlob == Glob(<<"**", "/", "test", "/", "**">>)

NodeModulesGlob == Glob(<<"**", "/", "node_modules", "/", "**">>)

\* 'src\*.ts', written with the separator of Windows.
WindowsGlob == Glob(<<"src", Backslash, "*", ".", "ts">>)

\* /\.tsx$/, /\.tsx$/g, /\/src\//y and /\\/g
TsxEnd == RegExp(<<".", "tsx">>, TRUE, FALSE, FALSE)

TsxEndGlobal == RegExp(<<".", "tsx">>, TRUE, TRUE, FALSE)

SrcSticky == RegExp(<<"/", "src", "/">>, FALSE, FALSE, TRUE)

BackslashGlobal == RegExp(<<Backslash>>, FALSE, TRUE, FALSE)

RegExps == {TsxEnd, TsxEndGlobal, SrcSticky, BackslashGlobal}

Patterns(include, exclude) == [include |-> include, exclude |-> exclude]

\* createFilter(): no pattern at all.
NoPatterns == Patterns(NullPattern, NullPattern)

\* The (include, exclude) pairs createFilter is called with.
PatternSets ==
    { NoPatterns,
      Patterns(ArrayPattern(<<>>), NullPattern),
      Patterns(OnePattern(TsxGlob), NullPattern),
      Patterns(ArrayPattern(<<TsxGlob, JsxGlob>>), NullPattern),
      Patterns(OnePattern(TsxEnd), NullPattern),
      Patterns(OnePattern(TsxEndGlobal), NullPattern),
      Patterns(OnePattern(WindowsGlob), NullPattern),
      Patterns(NullPattern, ArrayPattern(<<NodeModulesGlob>>)),
      Patterns(ArrayPattern(<<>>), OnePattern(BackslashGlobal)),
      Patterns(ArrayPattern(<<TsGlob>>), ArrayPattern(<<TestGlob>>)),
      Patterns(ArrayPattern(<<TsxEndGlobal, TsGlob>>), OnePattern(SrcSticky)),
      Patterns(OnePattern(TsxEndGlobal), ArrayPattern(<<TestGlob, TsxEndGlobal>>)) }

\* The values a filter is called with: paths with either separator, strings
\* with a null byte, the empty string, and values that are not strings.
Ids ==
    { Str(<<"/", "src", "/", "Button", ".", "tsx">>),
      Str(<<"/", "src", "/", "Other", ".", "tsx">>),
      Str(<<"/", "src", "/", "components", "/", "Button", ".", "tsx">>),
      Str(<<"/", "src", "/", "Button", ".", "jsx">>),
      Str(<<"/", "src", "/", "app", ".", "ts">>),
      Str(<<"/", "test", "/", "app", ".", "ts">>),
      Str(<<"/", "test", "/", "Button", ".", "tsx">>),
      Str(<<"/", "node_modules", "/", "pkg", "/", "index", ".", "js">>),
      Str(<<"bar", ".", "js">>),
      Str(<<"src", Backslash, "components", Backslash, "App", ".", "ts">>),
      Str(<<"src", Backslash, "App", ".", "ts">>),
      Str(<<Backslash, "test", Backslash, "app", ".", "ts">>),
      Str(<<Backslash, "src", Backslash, "Button", ".", "tsx">>),
      Str(<<"file", NullByte, ".", "ts">>),
      Str(<<NullByte, "/", "src", "/", "Button", ".", "tsx">>),
      Str(<<>>),
      FortyTwo, Null, Undefined }

(* ---------------------------------------------------------------------- *)
(* State                                                                   *)
(* ---------------------------------------------------------------------- *)

VARIABLES
    opts,              \* the astro:<name>:opts virtual modules
    renderers,         \* updatedSettings.renderers, later result.renderers
    astroJSXRenderer,  \* the "astro:jsx" descriptor, kept apart during setup
    finalized,         \* the astro:config:setup hooks have all run
    setupError,        \* addRenderer threw: startup is aborted
    calls,             \* per component render: the state of its renderer selection
    addRendererCalls,  \* the addRenderer calls made so far, in order
    patterns,          \* the include and exclude of the filter under test
    lastIndex,         \* lastIndex of every RegExp object
    lastIndexAtCall,   \* the lastIndex values when the last call of the filter began
    tested,            \* the argument of the last call of the filter
    returned,          \* what that call did: "true", "false" or "throw"
    consoleFilterRefs,     \* the reference counter of the console filter
    originalConsoleError,  \* console.error as it was before the filter was installed
    consoleError,          \* the function console.error is bound to
    disableConsoleFilter,  \* ASTRO_INTERNAL_TEST_DISABLE_CONSOLE_FILTER
    tryRenders,            \* per check(): whether its try-render is running
    errors,                \* the calls of console.error, in order
    stderr,                \* the calls that reached the original console.error
    extractInput,          \* the property bag extractDirectives was called with
    extractOutput,         \* what extractDirectives returned for it
    cachedHighlighters,    \* the Map from cache key to highlighter promise
    highlighterPromises,   \* the promises createShikiHighlighterInternal returned
    shikiCalls,            \* per caller: its createShikiHighlighter call
    clears,                \* how often the cache has been cleared
    request,               \* the last callMiddleware call: handlers, run, outcome
    firstUses              \* how often the reference counter went from 0 to 1

registryVars ==
    <<opts, renderers, astroJSXRenderer, finalized, setupError, addRendererCalls>>

filterVars == <<patterns, lastIndex, lastIndexAtCall, tested, returned>>

consoleVars ==
    <<consoleFilterRefs, originalConsoleError, consoleError, disableConsoleFilter,
      tryRenders, errors, stderr, firstUses>>

extractVars == <<extractInput, extractOutput>>

\* The state of the modules a step of another module leaves alone.
shikiVars == <<cachedHighlighters, highlighterPromises, shikiCalls, clears>>

middlewareVars == <<request>>

otherVars == <<consoleVars, extractVars, shikiVars, middlewareVars>>

vars == <<registryVars, calls, filterVars, otherVars>>

NoRenderer == [name |-> "", serverEntrypoint |-> "", clientEntrypoint |-> ""]

Descriptor(name) ==
    [name |-> name, serverEntrypoint |-> "server",
     clientEntrypoint |-> name \o "-client"]

\* What an integration may hand to addRenderer: a well-formed descriptor, one
\* with an empty name, one without a server entrypoint.
Descriptors ==
    {Descriptor(n) : n \in RendererNames}
        \cup {[Descriptor("") EXCEPT !.serverEntrypoint = "server"],
              [Descriptor("woof") EXCEPT !.serverEntrypoint = ""]}

NoResult ==
    [kind |-> "None", error |-> "", index |-> 0, via |-> "", cause |-> 0,
     probable |-> <<>>]

NoMetadata ==
    [hydrate |-> "", hydrateArgs |-> Undefined, componentExport |-> Undefined,
     componentUrl |-> Undefined]

\* No <astro-island> element.
NoIsland ==
    [componentUrl |-> Undefined, rendererUrl |-> "", componentExport |-> Undefined,
     client |-> ""]

Idle ==
    [pc |-> "idle", Component |-> Markup, metadata |-> NoMetadata, idx |-> 0,
     error |-> 0, checked |-> {}, probed |-> {}, invoked |-> <<>>,
     result |-> NoResult, island |-> NoIsland]

(* ---------------------------------------------------------------------- *)
(* Component metadata                                                      *)
(* ---------------------------------------------------------------------- *)

True == [type |-> "boolean", chars |-> <<"true">>]

\* The property bag the compiler passes to $$renderComponent: the path and
\* export attributes are emitted only next to a client: directive.  A key
\* is the pair of its prefix and the rest.
CompilerPropsWith(own, Component, usage) ==
    IF usage.directive = "none" THEN own
    ELSE own
         @@ (<<"client", usage.directive>> :>
                (IF usage.value = "" THEN True ELSE Str(<<usage.value>>)))
         @@ (<<"client", "component-path">> :> Str(Component.file))
         @@ (<<"client", "component-export">> :> Str(<<"default">>))
         @@ (<<"client", "component-hydration">> :> Str(<<>>))

CompilerProps(Component, usage) ==
    CompilerPropsWith(<<"", "title">> :> Str(<<"Counter">>), Component, usage)

NoHydration ==
    [present |-> FALSE, directive |-> "", value |-> Undefined,
     componentUrl |-> Undefined, componentExport |-> Undefined]

NoExtracted == [hydration |-> NoHydration, props |-> <<>>]

\* The keys of a bag that start with "client:".
clientKeys(inputProps) == {k \in DOMAIN inputProps : k[1] = "client"}

\* extractDirectives with every key forwarded.
extractDirectives_forwardAll(inputProps) ==
    [hydration |-> NoHydration, props |-> inputProps]

\* extractDirectives with a hydration object for every component.
extractDirectives_alwaysHydration(inputProps) ==
    [hydration |-> [present |-> TRUE, directive |-> "", value |-> Str(<<>>),
                    componentUrl |-> Str(<<>>), componentExport |-> Str(<<>>)],
     props |-> [k \in DOMAIN inputProps \ clientKeys(inputProps) |-> inputProps[k]]]

\* extractDirectives: the hydration object exists only if a key starts with
\* "client:"; its componentUrl starts as '' and is set by
\* client:component-path.  Every other key is forwarded with its value.
extractDirectives(inputProps) ==
    LET reserved == {"component-path", "component-export", "component-hydration",
                     "display-name"}
        directives == {k \in clientKeys(inputProps) : k[2] \notin reserved}
        hydration ==
            IF clientKeys(inputProps) = {} THEN NoHydration
            ELSE [present |-> TRUE,
                  directive |-> IF directives = {} THEN ""
                                ELSE (CHOOSE k \in directives : TRUE)[2],
                  value |-> IF directives = {} THEN Str(<<>>)
                            ELSE inputProps[CHOOSE k \in directives : TRUE],
                  componentUrl |->
                      IF <<"client", "component-path">> \in DOMAIN inputProps
                      THEN inputProps[<<"client", "component-path">>]
                      ELSE Str(<<>>),
                  componentExport |->
                      IF <<"client", "component-export">> \in DOMAIN inputProps
                      THEN inputProps[<<"client", "component-export">>]
                      ELSE Str(<<>>)]
    IN  [hydration |-> hydration,
         props |-> [k \in DOMAIN inputProps \ clientKeys(inputProps) |-> inputProps[k]]]

\* The metadata handed to check(): the hydration fields are copied only if
\* a hydration object exists.
Metadata(hydration) ==
    IF hydration.present
    THEN [hydrate |-> hydration.directive, hydrateArgs |-> hydration.value,
          componentExport |-> hydration.componentExport,
          componentUrl |-> hydration.componentUrl]
    ELSE NoMetadata

\* componentUrl?.split('.').pop(): what follows the last dot (the whole
\* string if there is none), undefined without a componentUrl.
extname(componentUrl) ==
    IF componentUrl.type # "string" THEN Undefined
    ELSE LET c == componentUrl.chars
             dots == {i \in 1..Len(c) : c[i] = "."}
             last == IF dots = {} THEN 0 ELSE CHOOSE i \in dots : \A j \in dots : j <= i
         IN  Str(SubSeq(c, last + 1, Len(c)))

\* The branch of guessRenderers for an extension it does not know, or none.
guessRenderersDefault ==
    <<"@astrojs/react", "@astrojs/preact", "@astrojs/solid-js", "@astrojs/vue",
      "@astrojs/svelte">>

\* guessRenderers without a list for jsx and tsx.
guessRenderers_noJsx(componentUrl) ==
    LET ext == extname(componentUrl)
    IN  CASE ext = Str(<<"svelte">>) -> <<"@astrojs/svelte">>
          [] ext = Str(<<"vue">>) -> <<"@astrojs/vue">>
          [] ext \in {Str(<<"jsx">>), Str(<<"tsx">>)} -> <<>>
          [] OTHER -> guessRenderersDefault

guessRenderers(componentUrl) ==
    LET ext == extname(componentUrl)
    IN  CASE ext = Str(<<"svelte">>) -> <<"@astrojs/svelte">>
          [] ext = Str(<<"vue">>) -> <<"@astrojs/vue">>
          [] ext \in {Str(<<"jsx">>), Str(<<"tsx">>)} ->
                <<"@astrojs/react", "@astrojs/preact", "@astrojs/solid-js",
                  "@astrojs/vue (jsx)">>
          [] OTHER -> guessRenderersDefault

(* ---------------------------------------------------------------------- *)
(* Renderer registration                                                   *)
(* ---------------------------------------------------------------------- *)

\* No callMiddleware call.
NoRequest ==
    [handlers |-> <<>>, events |-> <<>>, nextCalled |-> FALSE,
     value |-> [kind |-> "undefined", body |-> <<>>],
     outcome |-> [kind |-> "none", body |-> <<>>]]

\* No createShikiHighlighter call.
NoShikiCall ==
    [pc |-> "idle", key |-> <<>>, theme |-> "", themes |-> {}, langAlias |-> {},
     langs |-> {}, promise |-> 0, epoch |-> 0, loadedLanguages |-> {},
     todo |-> <<>>, lang |-> ""]

\* No render in progress, no filter in use, console.error untouched.
AtRest(disabled) ==
    /\ calls = [p \in Procs |-> Idle]
    /\ patterns = NoPatterns
    /\ lastIndex = [re \in RegExps |-> 0]
    /\ lastIndexAtCall = [re \in RegExps |-> 0]
    /\ tested = Undefined
    /\ returned = "none"
    /\ consoleFilterRefs = 0
    /\ originalConsoleError = "undefined"
    /\ consoleError = "native"
    /\ disableConsoleFilter = disabled
    /\ tryRenders = [p \in Procs |-> "idle"]
    /\ errors = <<>>
    /\ stderr = <<>>
    /\ firstUses = 0
    /\ extractInput = <<>>
    /\ extractOutput = NoExtracted
    /\ cachedHighlighters = {}
    /\ highlighterPromises = <<>>
    /\ shikiCalls = [p \in Procs |-> NoShikiCall]
    /\ clears = 0
    /\ request = NoRequest

Start(disabled) ==
    /\ opts \in OptionSets
    /\ renderers = <<>>
    /\ astroJSXRenderer = NoRenderer
    /\ finalized = FALSE
    /\ setupError = FALSE
    /\ addRendererCalls = <<>>
    /\ AtRest(disabled)

\* The process starts without ASTRO_INTERNAL_TEST_DISABLE_CONSOLE_FILTER.
Init == Start(FALSE)

\* One addRenderer call: its argument and whether it threw.
Call(renderer, threw) == [renderer |-> renderer, threw |-> threw]

\* The state once woof() and meow() have registered their renderers and
\* the setup has ended.
Serving ==
    /\ opts \in OptionSets
    /\ renderers = <<Descriptor("woof"), Descriptor("meow")>>
    /\ astroJSXRenderer = NoRenderer
    /\ finalized = TRUE
    /\ setupError = FALSE
    /\ addRendererCalls =
          <<Call(Descriptor("woof"), FALSE), Call(Descriptor("meow"), FALSE)>>
    /\ AtRest(FALSE)

\* addRenderer without its validation.
addRenderer_noValidation(renderer) ==
    /\ ~finalized
    /\ ~setupError
    /\ Len(addRendererCalls) < MaxRenderers
    /\ IF renderer.name = "astro:jsx"
       THEN /\ astroJSXRenderer' = renderer
            /\ UNCHANGED renderers
       ELSE /\ renderers' = Append(renderers, renderer)
            /\ UNCHANGED astroJSXRenderer
    /\ addRendererCalls' = Append(addRendererCalls, Call(renderer, FALSE))
    /\ UNCHANGED <<opts, finalized, setupError, calls, filterVars, otherVars>>

\* addRenderer, called by an integration's astro:config:setup hook: the
\* name and the server entrypoint are validated, "astro:jsx" is stored
\* apart, every other descriptor is pushed.  The error of a failed
\* validation is caught by the integration, which goes on, or ends the
\* setup.
addRenderer(renderer) ==
    /\ ~finalized
    /\ ~setupError
    /\ Len(addRendererCalls) < MaxRenderers
    /\ IF renderer.name = "" \/ renderer.serverEntrypoint = ""
       THEN /\ \E caught \in BOOLEAN : setupError' = ~caught
            /\ addRendererCalls' = Append(addRendererCalls, Call(renderer, TRUE))
            /\ UNCHANGED <<renderers, astroJSXRenderer>>
       ELSE /\ IF renderer.name = "astro:jsx"
               THEN /\ astroJSXRenderer' = renderer
                    /\ UNCHANGED renderers
               ELSE /\ renderers' = Append(renderers, renderer)
                    /\ UNCHANGED astroJSXRenderer
            /\ addRendererCalls' = Append(addRendererCalls, Call(renderer, FALSE))
            /\ UNCHANGED setupError
    /\ UNCHANGED <<opts, finalized, calls, filterVars, otherVars>>

\* The astro:jsx renderer put first.
runHookConfigSetup_unshift ==
    /\ ~finalized
    /\ ~setupError
    /\ renderers' = IF astroJSXRenderer # NoRenderer
                    THEN <<astroJSXRenderer>> \o renderers
                    ELSE renderers
    /\ finalized' = TRUE
    /\ UNCHANGED <<opts, astroJSXRenderer, setupError, calls, addRendererCalls,
                   filterVars, otherVars>>

\* After all integrations have run: the astro:jsx renderer comes last.
runHookConfigSetup ==
    /\ ~finalized
    /\ ~setupError
    /\ renderers' = IF astroJSXRenderer # NoRenderer
                    THEN Append(renderers, astroJSXRenderer)
                    ELSE renderers
    /\ finalized' = TRUE
    /\ UNCHANGED <<opts, astroJSXRenderer, setupError, calls, addRendererCalls,
                   filterVars, otherVars>>

\* A late addRenderer that pushes its argument.
addRendererLate_pushes(renderer) ==
    /\ finalized
    /\ ~setupError
    /\ Len(addRendererCalls) < MaxRenderers
    /\ renderers' = Append(renderers, renderer)
    /\ addRendererCalls' = Append(addRendererCalls, Call(renderer, FALSE))
    /\ UNCHANGED <<opts, astroJSXRenderer, finalized, setupError, calls, filterVars, otherVars>>

\* addRenderer called after the setup has ended: a fatal error, which ends
\* the process and the renders in progress with it, and nothing is added.
addRendererLate(renderer) ==
    /\ finalized
    /\ ~setupError
    /\ Len(addRendererCalls) < MaxRenderers
    /\ setupError' = TRUE
    /\ calls' = [p \in Procs |-> Idle]
    /\ addRendererCalls' = Append(addRendererCalls, Call(renderer, TRUE))
    /\ UNCHANGED <<opts, renderers, astroJSXRenderer, finalized, filterVars, otherVars>>

(* ---------------------------------------------------------------------- *)
(* check()                                                                 *)
(* ---------------------------------------------------------------------- *)

\* const filter = (opts.include || opts.exclude) ? createFilter(...) : null,
\* at module scope of a renderer's server module; astro:jsx has no options.
hasFilter(options, name) ==
    /\ name \in DOMAIN options
    /\ TruthyPattern(options[name].include) \/ TruthyPattern(options[name].exclude)

filter(options, name, id) ==
    createFilter(options[name].include, options[name].exclude, id, <<>>).returns
        = "true"

\* check() without the filter line.
rejectsEarly_noFilter(options, name, Component, metadata) ==
    ~Component.isFunction

\* check() filtering on the component's module path when the metadata has
\* no componentUrl.
rejectsEarly_modulePath(options, name, Component, metadata) ==
    \/ ~Component.isFunction
    \/ /\ hasFilter(options, name)
       /\ ~filter(options, name,
                  IF Truthy(metadata.componentUrl) THEN metadata.componentUrl
                  ELSE Str(Component.file))

\* check() with a filter on the renderer's own extension when no include
\* or exclude is configured.
rejectsEarly_defaultInclude(options, name, Component, metadata) ==
    \/ ~Component.isFunction
    \/ /\ hasFilter(options, name)
       /\ Truthy(metadata.componentUrl)
       /\ ~filter(options, name, metadata.componentUrl)
    \/ /\ ~hasFilter(options, name)
       /\ name \in {"woof", "meow"}
       /\ Truthy(metadata.componentUrl)
       /\ createFilter(OnePattern(Glob(<<"**", "/", "*", ".", name, ".", "jsx">>)),
                       NullPattern, metadata.componentUrl, <<>>).returns # "true"

\* The part of check() that runs before the try-render: TRUE if check
\* returns false there.
rejectsEarly(options, name, Component, metadata) ==
    \/ ~Component.isFunction
    \/ /\ hasFilter(options, name)
       /\ Truthy(metadata.componentUrl)
       /\ ~filter(options, name, metadata.componentUrl)

\* check(Component, props, children, metadata): "true", "false" or "throw".
check(options, name, Component, metadata) ==
    IF rejectsEarly(options, name, Component, metadata) THEN "false"
    ELSE Component.tryRender[name]

(* ---------------------------------------------------------------------- *)
(* renderFrameworkComponent: renderer selection                            *)
(* ---------------------------------------------------------------------- *)

\* find with a predicate that holds of every renderer.
find_first(list, rendererName) ==
    IF Len(list) > 0 THEN 1 ELSE 0

\* renderers.find(({ name }) => name === rendererName): the index of the
\* first match, 0 for undefined.
find(list, rendererName) ==
    LET hits == {i \in 1..Len(list) : list[i].name = rendererName}
    IN  IF hits = {} THEN 0 ELSE CHOOSE i \in hits : \A j \in hits : i <= j

Selected(index, via) ==
    [kind |-> "Selected", error |-> "", index |-> index, via |-> via, cause |-> 0,
     probable |-> <<>>]

\* NoMatchingRenderer with the probable renderer names and, if a check
\* threw, the first captured error.
Failed(via, componentUrl, error) ==
    [kind |-> "Failed", error |-> "NoMatchingRenderer", index |-> 0, via |-> via,
     cause |-> error, probable |-> guessRenderers(componentUrl)]

\* client:only: the renderer named by the directive value, else the only
\* renderer that is not astro:jsx, else the one named after the extension.
resolveOnly(list, metadata) ==
    LET named == IF Truthy(metadata.hydrateArgs) /\ Len(metadata.hydrateArgs.chars) = 1
                 THEN find(list, metadata.hydrateArgs.chars[1])
                 ELSE 0
        validRenderers == {i \in 1..Len(list) : list[i].name # "astro:jsx"}
        ext == extname(metadata.componentUrl)
    IN  IF named # 0 THEN named
        ELSE IF Cardinality(validRenderers) = 1 THEN CHOOSE i \in validRenderers : TRUE
        ELSE IF ext.type = "string" /\ Len(ext.chars) = 1
        THEN find(list, ext.chars[1])
        ELSE 0

\* The tagged name is looked up in a list that holds no renderer.
taggedRenderer_ignored(list, Component) == find(<<>>, Component.tag)

\* isTagged = Component && Component[Renderer]; a tagged component is looked
\* up by the tagged name.
taggedRenderer(list, Component) ==
    IF Component.tag # NoTag THEN find(list, Component.tag) ELSE 0

\* A selection that fails on a tag naming no renderer of the list.
startResolve_staleFails(list, Component, metadata) ==
    LET byTag == taggedRenderer(list, Component)
        byOnly == resolveOnly(list, metadata)
        call == [Idle EXCEPT !.Component = Component, !.metadata = metadata]
    IN  IF byTag # 0
        THEN [call EXCEPT !.pc = "done", !.result = Selected(byTag, "tag")]
        ELSE IF Component.tag # NoTag
        THEN [call EXCEPT !.pc = "done",
                          !.result = Failed("tag", metadata.componentUrl, 0)]
        ELSE IF metadata.hydrate = "only"
        THEN [call EXCEPT !.pc = "done",
                          !.result = IF byOnly # 0 THEN Selected(byOnly, "only")
                                     ELSE Failed("only", metadata.componentUrl, 0)]
        ELSE IF Len(list) = 0
        THEN [call EXCEPT !.pc = "done",
                          !.result = Failed("check", metadata.componentUrl, 0)]
        ELSE [call EXCEPT !.pc = "loop", !.idx = 1]

\* A selection that goes on with the check() loop when client:only names
\* no renderer.
startResolve_onlyProbes(list, Component, metadata) ==
    LET byTag == taggedRenderer(list, Component)
        byOnly == resolveOnly(list, metadata)
        call == [Idle EXCEPT !.Component = Component, !.metadata = metadata]
    IN  IF byTag # 0
        THEN [call EXCEPT !.pc = "done", !.result = Selected(byTag, "tag")]
        ELSE IF metadata.hydrate = "only" /\ byOnly # 0
        THEN [call EXCEPT !.pc = "done", !.result = Selected(byOnly, "only")]
        ELSE IF Len(list) = 0
        THEN [call EXCEPT !.pc = "done",
                          !.result = Failed("check", metadata.componentUrl, 0)]
        ELSE [call EXCEPT !.pc = "loop", !.idx = 1]

\* A selection that looks at client:only before the tag.
startResolve_onlyFirst(list, Component, metadata) ==
    LET byTag == taggedRenderer(list, Component)
        byOnly == resolveOnly(list, metadata)
        call == [Idle EXCEPT !.Component = Component, !.metadata = metadata]
    IN  IF metadata.hydrate = "only"
        THEN [call EXCEPT !.pc = "done",
                          !.result = IF byOnly # 0 THEN Selected(byOnly, "only")
                                     ELSE Failed("only", metadata.componentUrl, 0)]
        ELSE IF byTag # 0
        THEN [call EXCEPT !.pc = "done", !.result = Selected(byTag, "tag")]
        ELSE IF Len(list) = 0
        THEN [call EXCEPT !.pc = "done",
                          !.result = Failed("check", metadata.componentUrl, 0)]
        ELSE [call EXCEPT !.pc = "loop", !.idx = 1]

\* The selection up to the first check() call: the tag set by
\* __astro_tag_component__, then client:only, then the check() loop.
startResolve(list, Component, metadata) ==
    LET byTag == taggedRenderer(list, Component)
        byOnly == resolveOnly(list, metadata)
        call == [Idle EXCEPT !.Component = Component, !.metadata = metadata]
    IN  IF byTag # 0
        THEN [call EXCEPT !.pc = "done", !.result = Selected(byTag, "tag")]
        ELSE IF metadata.hydrate = "only"
        THEN [call EXCEPT !.pc = "done",
                          !.result = IF byOnly # 0 THEN Selected(byOnly, "only")
                                     ELSE Failed("only", metadata.componentUrl, 0)]
        ELSE IF Len(list) = 0
        THEN [call EXCEPT !.pc = "done",
                          !.result = Failed("check", metadata.componentUrl, 0)]
        ELSE [call EXCEPT !.pc = "loop", !.idx = 1]

\* The loop calling a check() that threw once more before it goes on.
afterCheck_retry(list, call, outcome) ==
    LET error == IF outcome = "throw" /\ call.error = 0 THEN call.idx ELSE call.error
    IN  IF outcome = "true"
        THEN [call EXCEPT !.pc = "done", !.result = Selected(call.idx, "check")]
        ELSE IF outcome = "throw" /\ call.error = 0
        THEN [call EXCEPT !.pc = "loop", !.error = error]
        ELSE IF call.idx < Len(list)
        THEN [call EXCEPT !.pc = "loop", !.idx = call.idx + 1, !.error = error]
        ELSE [call EXCEPT !.pc = "done", !.error = error,
                          !.result = Failed("check", call.metadata.componentUrl, error)]

\* The loop without its break: the last renderer whose check is true wins.
afterCheck_noBreak(list, call, outcome) ==
    LET error == IF outcome = "throw" /\ call.error = 0 THEN call.idx ELSE call.error
        chosen == IF outcome = "true" THEN Selected(call.idx, "check") ELSE call.result
    IN  IF call.idx < Len(list)
        THEN [call EXCEPT !.pc = "loop", !.idx = call.idx + 1, !.error = error,
                          !.result = chosen]
        ELSE [call EXCEPT !.pc = "done", !.error = error,
                          !.result = IF chosen.kind = "Selected" THEN chosen
                                     ELSE Failed("check", call.metadata.componentUrl, error)]

\* The loop without its try/catch: a throwing check ends the selection.
afterCheck_noCatch(list, call, outcome) ==
    IF outcome = "true"
    THEN [call EXCEPT !.pc = "done", !.result = Selected(call.idx, "check")]
    ELSE IF outcome = "throw"
    THEN [call EXCEPT !.pc = "done", !.error = call.idx,
                      !.result = Failed("check", call.metadata.componentUrl, call.idx)]
    ELSE IF call.idx < Len(list)
    THEN [call EXCEPT !.pc = "loop", !.idx = call.idx + 1]
    ELSE [call EXCEPT !.pc = "done",
                      !.result = Failed("check", call.metadata.componentUrl, call.error)]

\* The loop with error = e in its catch: the last thrown error is kept.
afterCheck_lastError(list, call, outcome) ==
    LET error == IF outcome = "throw" THEN call.idx ELSE call.error
    IN  IF outcome = "true"
        THEN [call EXCEPT !.pc = "done", !.result = Selected(call.idx, "check")]
        ELSE IF call.idx < Len(list)
        THEN [call EXCEPT !.pc = "loop", !.idx = call.idx + 1, !.error = error]
        ELSE [call EXCEPT !.pc = "done", !.error = error,
                          !.result = Failed("check", call.metadata.componentUrl, error)]

\* One iteration of the check() loop, once check() has settled: true
\* selects the renderer and breaks, a throw is kept by error ??= e, and
\* after the last renderer the selection fails.
afterCheck(list, call, outcome) ==
    LET error == IF outcome = "throw" /\ call.error = 0 THEN call.idx ELSE call.error
    IN  IF outcome = "true"
        THEN [call EXCEPT !.pc = "done", !.result = Selected(call.idx, "check")]
        ELSE IF call.idx < Len(list)
        THEN [call EXCEPT !.pc = "loop", !.idx = call.idx + 1, !.error = error]
        ELSE [call EXCEPT !.pc = "done", !.error = error,
                          !.result = Failed("check", call.metadata.componentUrl, error)]

\* An <astro-island> that loads the client of the first renderer.
generateHydrateScript_firstRenderer(list, call) ==
    [componentUrl |-> call.metadata.componentUrl,
     rendererUrl |-> list[1].clientEntrypoint,
     componentExport |-> call.metadata.componentExport,
     client |-> call.metadata.hydrate]

\* generateHydrateScript: the <astro-island> of a hydrated component, with
\* the client entrypoint of the renderer the selection has chosen.
generateHydrateScript(list, call) ==
    [componentUrl |-> call.metadata.componentUrl,
     rendererUrl |-> list[call.result.index].clientEntrypoint,
     componentExport |-> call.metadata.componentExport,
     client |-> call.metadata.hydrate]

\* An island of the first renderer for a component whose selection failed.
renderIsland_unresolved(list, call) ==
    IF call.pc = "done" /\ call.metadata.hydrate # "" /\ Len(list) > 0
    THEN [call EXCEPT !.island =
            IF call.result.kind = "Selected" THEN generateHydrateScript(list, call)
            ELSE generateHydrateScript_firstRenderer(list, call)]
    ELSE call

\* Once a renderer is selected, a component with a directive is rendered
\* into an island.
renderIsland(list, call) ==
    IF call.pc = "done" /\ call.result.kind = "Selected" /\ call.metadata.hydrate # ""
    THEN [call EXCEPT !.island = generateHydrateScript(list, call)]
    ELSE call

\* A template renders a component.
renderFrameworkComponent(p, Component, usage) ==
    /\ finalized
    /\ ~setupError
    /\ calls[p].pc = "idle"
    /\ calls' = [calls EXCEPT ![p] =
            renderIsland(renderers,
                startResolve(renderers, Component,
                    Metadata(extractDirectives(CompilerProps(Component, usage)).hydration)))]
    /\ UNCHANGED <<registryVars, filterVars, otherVars>>

\* check() with a guard against re-entrance: it returns false while the
\* check() of another render is suspended.
callCheck_guarded(p) ==
    LET call == calls[p]
        name == renderers[call.idx].name
        called == [call EXCEPT !.checked = @ \cup {call.idx},
                               !.invoked = Append(@, call.idx)]
        busy == \E q \in Procs : q # p /\ calls[q].pc = "await"
    IN  /\ call.pc = "loop"
        /\ ~setupError
        /\ calls' = [calls EXCEPT ![p] =
                IF busy \/ rejectsEarly(opts, name, call.Component, call.metadata)
                THEN renderIsland(renderers, afterCheck(renderers, called, "false"))
                ELSE [called EXCEPT !.pc = "await", !.probed = @ \cup {call.idx}]]
        /\ UNCHANGED <<registryVars, filterVars, otherVars>>

\* The loop calls r.ssr.check of the next renderer.  A check that returns
\* before its try-render settles at once; otherwise the try-render is
\* running and the selection is suspended on it.
callCheck(p) ==
    LET call == calls[p]
        name == renderers[call.idx].name
        called == [call EXCEPT !.checked = @ \cup {call.idx},
                               !.invoked = Append(@, call.idx)]
    IN  /\ call.pc = "loop"
        /\ ~setupError
        /\ calls' = [calls EXCEPT ![p] =
                IF rejectsEarly(opts, name, call.Component, call.metadata)
                THEN renderIsland(renderers, afterCheck(renderers, called, "false"))
                ELSE [called EXCEPT !.pc = "await", !.probed = @ \cup {call.idx}]]
        /\ UNCHANGED <<registryVars, filterVars, otherVars>>

\* check() keeping the component in a variable of its module, which a
\* check() of another render overwrites while this one is suspended.
settleCheck_shared(p) ==
    LET call == calls[p]
        name == renderers[call.idx].name
        others == {q \in Procs : q # p /\ calls[q].pc = "await"}
        seen == IF others = {} THEN call.Component
                ELSE calls[CHOOSE q \in others : TRUE].Component
    IN  /\ call.pc = "await"
        /\ ~setupError
        /\ calls' = [calls EXCEPT ![p] =
                renderIsland(renderers,
                    afterCheck(renderers, call, check(opts, name, seen, call.metadata)))]
        /\ UNCHANGED <<registryVars, filterVars, otherVars>>

\* A check() whose try-render settles only after those of the renders
\* that started to wait before it.
settleCheck_queued(p) ==
    LET call == calls[p]
        name == renderers[call.idx].name
    IN  /\ call.pc = "await"
        /\ ~setupError
        /\ \A q \in Procs : q < p => calls[q].pc # "await"
        /\ calls' = [calls EXCEPT ![p] =
                renderIsland(renderers,
                    afterCheck(renderers, call,
                               check(opts, name, call.Component, call.metadata)))]
        /\ UNCHANGED <<registryVars, filterVars, otherVars>>

\* The try-render of the awaited check() settles.
settleCheck(p) ==
    LET call == calls[p]
        name == renderers[call.idx].name
    IN  /\ call.pc = "await"
        /\ ~setupError
        /\ calls' = [calls EXCEPT ![p] =
                renderIsland(renderers,
                    afterCheck(renderers, call,
                               check(opts, name, call.Component, call.metadata)))]
        /\ UNCHANGED <<registryVars, filterVars, otherVars>>

\* The render of the component ends (markup produced or error propagated).
finishRender(p) ==
    /\ calls[p].pc = "done"
    /\ ~setupError
    /\ calls' = [calls EXCEPT ![p] = Idle]
    /\ UNCHANGED <<registryVars, filterVars, otherVars>>

Next ==
    \/ \E renderer \in Descriptors : addRenderer(renderer)
    \/ runHookConfigSetup
    \/ \E renderer \in Descriptors : addRendererLate(renderer)
    \/ \E p \in Procs, Component \in Components, usage \in Usages :
          renderFrameworkComponent(p, Component, usage)
    \/ \E p \in Procs : callCheck(p)
    \/ \E p \in Procs : settleCheck(p)
    \/ \E p \in Procs : finishRender(p)

Spec == Init /\ [][Next]_vars

\* The components of the pages that are rendered concurrently: claimed by
\* the first renderer, by the second after the first threw or returned
\* false, and by none.
PageComponents == {WoofCounter, Legacy, Widget, Card}

\* The renders of a site that is being served.
RenderNext ==
    \/ \E p \in Procs, Component \in PageComponents,
          usage \in {Usage("none", ""), Usage("load", "")} :
          renderFrameworkComponent(p, Component, usage)
    \/ \E p \in Procs : callCheck(p)
    \/ \E p \in Procs : settleCheck(p)
    \/ \E p \in Procs : finishRender(p)

\* The renders of process 2 go on: its loop calls the next check() and its
\* check() calls settle.  Nothing is assumed of process 1, whose check()
\* may never settle.
IsolationSpec ==
    Serving /\ [][RenderNext]_vars /\ WF_vars(callCheck(2)) /\ WF_vars(settleCheck(2))

(* ---------------------------------------------------------------------- *)
(* A filter in use                                                         *)
(* ---------------------------------------------------------------------- *)

\* const filter = createFilter(include, exclude): the RegExp objects among
\* the patterns are the caller's, with whatever lastIndex they have.
newFilter(include, exclude) ==
    /\ patterns' = Patterns(include, exclude)
    /\ tested' = Undefined
    /\ returned' = "none"
    /\ lastIndexAtCall' = lastIndex
    /\ UNCHANGED <<lastIndex, registryVars, calls, otherVars>>

\* filter(id)
callFilter(id) ==
    LET call == createFilter(patterns.include, patterns.exclude, id, lastIndex)
    IN  /\ tested' = id
        /\ returned' = call.returns
        /\ lastIndex' = call.li
        /\ lastIndexAtCall' = lastIndex
        /\ UNCHANGED <<patterns, registryVars, calls, otherVars>>

FilterNext ==
    \/ \E ps \in PatternSets : newFilter(ps.include, ps.exclude)
    \/ \E id \in Ids : callFilter(id)

FilterSpec == Init /\ [][FilterNext]_vars

(* ---------------------------------------------------------------------- *)
(* The console filter of the Preact renderer                               *)
(* ---------------------------------------------------------------------- *)

\* The most console.error calls a run makes.
MaxMessages == 3

\* The transitions of the reference counter from 0 to 1 that are counted.
MaxFirstUses == 2

\* The count after a useConsoleFilter call that finds the counter at refs.
countFirstUse(refs, count) ==
    IF refs = 0 /\ count < MaxFirstUses THEN count + 1 ELSE count

WarningPrefix == "Warning: "
InvalidHookCall == "Invalid hook call."
ReactjsOrgLink == "https://reactjs.org/link/invalid-hook-call"
ReactDevLink == "https://react.dev/link/invalid-hook-call"

\* What React 18 and React 19 print for a hook called outside a component,
\* a message that has the words but no link, and an unrelated error.
HookError18 == Str(<<WarningPrefix, InvalidHookCall, "Hooks can only", ReactjsOrgLink>>)
HookError19 == Str(<<InvalidHookCall, "Hooks can only", ReactDevLink>>)
HookWords == Str(<<WarningPrefix, InvalidHookCall, "Hooks can only">>)
OtherError == Str(<<"TypeError: x is not a function">>)

Messages == {HookError18, HookError19, HookWords, OtherError}

\* msg.includes(searchString): searchString occurs in msg.
msgIncludes(msg, searchString) ==
    \E i \in 0..(Len(msg.chars) - Len(searchString)) :
        SubSeq(msg.chars, i + 1, i + Len(searchString)) = searchString

\* The message of React up to version 18.
isKnownReactHookError(msg) ==
    /\ msgIncludes(msg, <<WarningPrefix, InvalidHookCall>>)
    /\ msgIncludes(msg, <<ReactjsOrgLink>>)

\* The message of React 19: no "Warning: ", another link.
isKnownReact19HookError(msg) ==
    /\ msgIncludes(msg, <<InvalidHookCall>>)
    /\ msgIncludes(msg, <<ReactDevLink>>)

\* One console.error call: its argument and the function that received it.
Logged(msg, by) == [msg |-> msg, by |-> by]

\* useConsoleFilter that installs the filter whenever the counter goes from
\* 0 to 1.
useConsoleFilter_installAtOne(p) ==
    /\ tryRenders[p] = "idle"
    /\ tryRenders' = [tryRenders EXCEPT ![p] = "running"]
    /\ firstUses' = countFirstUse(consoleFilterRefs, firstUses)
    /\ consoleFilterRefs' = consoleFilterRefs + 1
    /\ IF consoleFilterRefs = 0
       THEN /\ originalConsoleError' = consoleError
            /\ consoleError' = "filtered"
       ELSE UNCHANGED <<originalConsoleError, consoleError>>
    /\ UNCHANGED <<disableConsoleFilter, errors, stderr, registryVars, calls,
                   filterVars, extractVars, shikiVars, middlewareVars>>

\* useConsoleFilter that counts only the call that installs the filter.
useConsoleFilter_incrementOnInstall(p) ==
    /\ tryRenders[p] = "idle"
    /\ tryRenders' = [tryRenders EXCEPT ![p] = "running"]
    /\ firstUses' = countFirstUse(consoleFilterRefs, firstUses)
    /\ IF originalConsoleError = "undefined"
       THEN /\ consoleFilterRefs' = consoleFilterRefs + 1
            /\ originalConsoleError' = consoleError
            /\ consoleError' = "filtered"
       ELSE UNCHANGED <<consoleFilterRefs, originalConsoleError, consoleError>>
    /\ UNCHANGED <<disableConsoleFilter, errors, stderr, registryVars, calls,
                   filterVars, extractVars, shikiVars, middlewareVars>>

\* check() of process p enters its try-render: the counter goes up, and the
\* first call replaces console.error.
useConsoleFilter(p) ==
    /\ tryRenders[p] = "idle"
    /\ tryRenders' = [tryRenders EXCEPT ![p] = "running"]
    /\ firstUses' = countFirstUse(consoleFilterRefs, firstUses)
    /\ consoleFilterRefs' = consoleFilterRefs + 1
    /\ IF originalConsoleError = "undefined"
       THEN /\ originalConsoleError' = consoleError
            /\ consoleError' = "filtered"
       ELSE UNCHANGED <<originalConsoleError, consoleError>>
    /\ UNCHANGED <<disableConsoleFilter, errors, stderr, registryVars, calls,
                   filterVars, extractVars, shikiVars, middlewareVars>>

\* finishUsingConsoleFilter that puts console.error back at zero.
finishUsingConsoleFilter_restore(p) ==
    /\ tryRenders[p] = "running"
    /\ tryRenders' = [tryRenders EXCEPT ![p] = "idle"]
    /\ consoleFilterRefs' = consoleFilterRefs - 1
    /\ IF consoleFilterRefs' = 0
       THEN /\ consoleError' = originalConsoleError
            /\ originalConsoleError' = "undefined"
       ELSE UNCHANGED <<originalConsoleError, consoleError>>
    /\ UNCHANGED <<disableConsoleFilter, errors, stderr, firstUses, registryVars,
                   calls, filterVars, extractVars, shikiVars, middlewareVars>>

\* The try-render of process p has ended: the counter goes down, and the
\* hook stays.
finishUsingConsoleFilter(p) ==
    /\ tryRenders[p] = "running"
    /\ tryRenders' = [tryRenders EXCEPT ![p] = "idle"]
    /\ consoleFilterRefs' = consoleFilterRefs - 1
    /\ UNCHANGED <<originalConsoleError, consoleError, disableConsoleFilter, errors,
                   stderr, firstUses, registryVars, calls, filterVars, extractVars,
                   shikiVars, middlewareVars>>

\* filteredConsoleError that forwards nothing.
filteredConsoleError_swallowAll(msg) ==
    /\ errors' = Append(errors, Logged(msg, "filtered"))
    /\ UNCHANGED stderr

\* filteredConsoleError(msg): everything goes to the original console.error
\* if the environment variable is set, and everything but the known hook
\* errors if it is not.
filteredConsoleError(msg) ==
    /\ errors' = Append(errors, Logged(msg, "filtered"))
    /\ IF disableConsoleFilter
       THEN stderr' = Append(stderr, Logged(msg, "filtered"))
       ELSE IF isKnownReactHookError(msg) \/ isKnownReact19HookError(msg)
            THEN UNCHANGED stderr
            ELSE stderr' = Append(stderr, Logged(msg, "filtered"))

\* console.error(msg), by whatever code runs in the process.
consoleErrorCall(msg) ==
    /\ Len(errors) < MaxMessages
    /\ IF consoleError = "filtered"
       THEN filteredConsoleError(msg)
       ELSE /\ errors' = Append(errors, Logged(msg, "native"))
            /\ stderr' = Append(stderr, Logged(msg, "native"))
    /\ UNCHANGED <<consoleFilterRefs, originalConsoleError, consoleError,
                   disableConsoleFilter, tryRenders, firstUses, registryVars, calls,
                   filterVars, extractVars, shikiVars, middlewareVars>>

ConsoleInit == \E disabled \in BOOLEAN : Start(disabled)

ConsoleNext ==
    \/ \E p \in Procs : useConsoleFilter(p)
    \/ \E p \in Procs : finishUsingConsoleFilter(p)
    \/ \E msg \in Messages : consoleErrorCall(msg)

ConsoleSpec == ConsoleInit /\ [][ConsoleNext]_vars

(* ---------------------------------------------------------------------- *)
(* createShikiHighlighter                                                  *)
(* ---------------------------------------------------------------------- *)

\* The most highlighters a run creates and the most cache clearings.
MaxHighlighters == 2

MaxClears == 1

\* An optional object option: undefined, or its entries in insertion order.
NoObject == [defined |-> FALSE, entries |-> <<>>]

Object(entries) == [defined |-> TRUE, entries |-> entries]

\* createShikiHighlighter(options); theme "" stands for no theme.
ShikiOptions(theme, themes, langAlias, langs) ==
    [theme |-> theme, themes |-> themes, langAlias |-> langAlias, langs |-> langs]

LightDark == Object(<<<<"light", "github-light">>, <<"dark", "github-dark">>>>)

DarkLight == Object(<<<<"dark", "github-dark">>, <<"light", "github-light">>>>)

CjsAlias == Object(<<<<"cjs", "javascript">>>>)

\* The options of the calls: the same themes written in two orders, and
\* langs that differ between calls with the same theme.
OptionValues ==
    { ShikiOptions("", NoObject, NoObject, <<>>),
      ShikiOptions("", NoObject, NoObject, <<"js">>),
      ShikiOptions("github-light", NoObject, CjsAlias, <<"ts", "js">>),
      ShikiOptions("", LightDark, NoObject, <<"js">>),
      ShikiOptions("", DarkLight, NoObject, <<"ts">>) }

\* The order of the strings that occur as keys of themes and langAlias.
Rank(key) == CASE key = "cjs" -> 1 [] key = "dark" -> 2 [] key = "light" -> 3

\* Array.prototype.sort on entries: by key, as all keys differ.
RECURSIVE sort(_)
sort(entries) ==
    IF entries = <<>> THEN <<>>
    ELSE LET least == CHOOSE i \in 1..Len(entries) :
                          \A j \in 1..Len(entries) :
                              Rank(entries[i][1]) <= Rank(entries[j][1])
             rest == [j \in 1..(Len(entries) - 1) |->
                         IF j < least THEN entries[j] ELSE entries[j + 1]]
         IN  <<entries[least]>> \o sort(rest)

\* JSON.stringify of an array of [key, value] pairs, as tokens.
RECURSIVE stringifyEntries(_)
stringifyEntries(entries) ==
    IF entries = <<>> THEN <<>>
    ELSE <<"[", entries[1][1], entries[1][2], "]">> \o stringifyEntries(Tail(entries))

\* getCacheKey with the langs in the key.
getCacheKey_withLangs(options) ==
    <<"[">> \o options.langs \o <<"]">>

\* getCacheKey: JSON.stringify of the theme, the sorted entries of themes
\* and the sorted entries of langAlias, each only if given; '' if none is.
getCacheKey(options) ==
    LET keyCache ==
            (IF options.theme # "" THEN <<options.theme>> ELSE <<>>)
            \o (IF options.themes.defined
                THEN <<"[">> \o stringifyEntries(sort(options.themes.entries)) \o <<"]">>
                ELSE <<>>)
            \o (IF options.langAlias.defined
                THEN <<"[">> \o stringifyEntries(sort(options.langAlias.entries))
                         \o <<"]">>
                ELSE <<>>)
    IN  IF keyCache = <<>> THEN <<>> ELSE <<"[">> \o keyCache \o <<"]">>

\* The elements of a sequence.
Range(seq) == {seq[i] : i \in 1..Len(seq)}

\* cachedHighlighters.get(key): the promise, 0 for undefined.
cacheGet(key) ==
    LET hits == {e \in cachedHighlighters : e.key = key}
    IN  IF hits = {} THEN 0 ELSE (CHOOSE e \in hits : TRUE).promise

\* createShikiHighlighter(options) up to its return: the lookup, the
\* creation and the cache.set run synchronously; the caller then awaits
\* the promise ensureLanguagesLoaded returns.
createShikiHighlighter(p, options) ==
    LET key == getCacheKey(options)
        cached == cacheGet(key)
        promise == IF cached # 0 THEN cached ELSE Len(highlighterPromises) + 1
    IN  /\ shikiCalls[p].pc \in {"idle", "resolved", "rejected"}
        /\ cached = 0 => Len(highlighterPromises) < MaxHighlighters
        /\ IF cached = 0
           THEN /\ highlighterPromises' =
                      Append(highlighterPromises,
                             [state |-> "pending", key |-> key,
                              langs |-> Range(options.langs), loaded |-> {},
                              loadLanguage |-> <<>>, epoch |-> clears])
                /\ cachedHighlighters' =
                      cachedHighlighters \cup {[key |-> key, promise |-> promise]}
           ELSE UNCHANGED <<highlighterPromises, cachedHighlighters>>
        /\ shikiCalls' = [shikiCalls EXCEPT ![p] =
                [pc |-> "awaiting", key |-> key, theme |-> options.theme,
                 themes |-> Range(options.themes.entries),
                 langAlias |-> Range(options.langAlias.entries),
                 langs |-> Range(options.langs), promise |-> promise,
                 epoch |-> clears, loadedLanguages |-> {},
                 todo |-> options.langs, lang |-> ""]]
        /\ UNCHANGED <<clears, registryVars, calls, filterVars, consoleVars,
                       extractVars, middlewareVars>>

\* createShikiHighlighterInternal settles: the highlighter exists, created
\* with the langs of the call that made it, or its creation has failed.
createShikiHighlighterInternal(i, ok) ==
    /\ i \in 1..Len(highlighterPromises)
    /\ highlighterPromises[i].state = "pending"
    /\ highlighterPromises' =
          [highlighterPromises EXCEPT
              ![i].state = IF ok THEN "fulfilled" ELSE "rejected",
              ![i].loaded = IF ok THEN highlighterPromises[i].langs ELSE {}]
    /\ UNCHANGED <<cachedHighlighters, shikiCalls, clears, registryVars, calls,
                   filterVars, consoleVars, extractVars, middlewareVars>>

\* The langs of the loop from the first one that is not in loadedLanguages.
RECURSIVE skipLoaded(_, _)
skipLoaded(langs, loadedLanguages) ==
    IF langs = <<>> THEN <<>>
    ELSE IF langs[1] \in loadedLanguages THEN skipLoaded(Tail(langs), loadedLanguages)
    ELSE langs

\* The loop of ensureLanguagesLoaded up to its next await: the langs found
\* in loadedLanguages, read once before the loop, are skipped, and
\* loadLanguage is called for the first that is not.
continueLoop(p, call, loadedLanguages) ==
    LET rest == skipLoaded(call.todo, loadedLanguages)
    IN  IF rest = <<>>
        THEN [call EXCEPT !.pc = "resolved", !.todo = <<>>, !.lang = "",
                          !.loadedLanguages = loadedLanguages]
        ELSE [call EXCEPT !.pc = "loading", !.todo = Tail(rest), !.lang = rest[1],
                          !.loadedLanguages = loadedLanguages]

\* The calls of highlighter.loadLanguage, one more if the call is loading.
Invoked(invocations, call) ==
    IF call.pc = "loading" THEN Append(invocations, call.lang) ELSE invocations

\* ensureLanguagesLoaded resumes once the promise has settled: it rejects
\* with the promise, or reads the loaded languages and enters its loop.
ensureLanguagesLoaded(p) ==
    LET call == shikiCalls[p]
        promise == highlighterPromises[call.promise]
        next == continueLoop(p, call, promise.loaded)
    IN  /\ call.pc = "awaiting"
        /\ promise.state # "pending"
        /\ IF promise.state = "rejected"
           THEN /\ shikiCalls' = [shikiCalls EXCEPT ![p].pc = "rejected"]
                /\ UNCHANGED highlighterPromises
           ELSE /\ shikiCalls' = [shikiCalls EXCEPT ![p] = next]
                /\ highlighterPromises' =
                      [highlighterPromises EXCEPT ![call.promise].loadLanguage =
                          Invoked(@, next)]
        /\ UNCHANGED <<cachedHighlighters, clears, registryVars, calls, filterVars,
                       consoleVars, extractVars, middlewareVars>>

\* await highlighter.loadLanguage(lang) settles: the language is loaded
\* and the loop goes on.
loadLanguage(p) ==
    LET call == shikiCalls[p]
        next == continueLoop(p, call, call.loadedLanguages)
    IN  /\ call.pc = "loading"
        /\ shikiCalls' = [shikiCalls EXCEPT ![p] = next]
        /\ highlighterPromises' =
              [highlighterPromises EXCEPT
                  ![call.promise].loaded = @ \cup {call.lang},
                  ![call.promise].loadLanguage = Invoked(@, next)]
        /\ UNCHANGED <<cachedHighlighters, clears, registryVars, calls, filterVars,
                       consoleVars, extractVars, middlewareVars>>

\* clearShikiHighlighterCache()
clearShikiHighlighterCache ==
    /\ clears < MaxClears
    /\ cachedHighlighters' = {}
    /\ clears' = clears + 1
    /\ UNCHANGED <<highlighterPromises, shikiCalls, registryVars, calls, filterVars,
                   consoleVars, extractVars, middlewareVars>>

ShikiNext ==
    \/ \E p \in Procs, options \in OptionValues : createShikiHighlighter(p, options)
    \/ \E i \in 1..MaxHighlighters, ok \in BOOLEAN : createShikiHighlighterInternal(i, ok)
    \/ \E p \in Procs : ensureLanguagesLoaded(p)
    \/ \E p \in Procs : loadLanguage(p)
    \/ clearShikiHighlighterCache

ShikiSpec == Init /\ [][ShikiNext]_vars

(* ---------------------------------------------------------------------- *)
(* sequence and callMiddleware                                             *)
(* ---------------------------------------------------------------------- *)

\* The most arguments of a sequence() call.
MaxHandlers == 3

\* What a handler does: return next(); await next() and return a new
\* Response made from its result; return a Response; await next() and
\* return nothing; return nothing; return a string; await next() and
\* return a string.
HandlerKinds ==
    {"next", "modify", "respond", "forget", "nothing", "string", "nextString"}

\* The arguments of sequence(): handlers, null and undefined.
HandlerArgs == HandlerKinds \cup {"null", "undefined"}

\* What a handler, a middleware or next() returns; a handler that uses the
\* result of next() as a Response throws a TypeError if it is none.
Value(kind, body) == [kind |-> kind, body |-> body]

\* A handler has started, a handler has called its next(), the response
\* function has run.
Event(what, handler) == [what |-> what, handler |-> handler]

\* A middleware call: what happened in it, whether the next() passed to the
\* middleware was called, and what the middleware returned.
Run(events, nextCalled, value) ==
    [events |-> events, nextCalled |-> nextCalled, value |-> value]

\* next() of callMiddleware: the response function renders the page.
responseFunction == Run(<<Event("page", 0)>>, TRUE, Value("Response", <<"page">>))

\* handlers.filter((h) => !!h), each handler with its argument position.
filterHandlers(handlers) ==
    SelectSeq([i \in 1..Len(handlers) |-> [does |-> handlers[i], arg |-> i]],
              LAMBDA h : h.does \in HandlerKinds)

\* applyHandle(i): handler i is called with a next() that applies handler
\* i + 1 or, for the last handler, is the next() of the sequence.
RECURSIVE applyHandle(_, _)
applyHandle(filtered, i) ==
    LET h == filtered[i]
        started == <<Event("start", h.arg)>>
        inner == IF i < Len(filtered) THEN applyHandle(filtered, i + 1)
                 ELSE responseFunction
        after == started \o <<Event("next", h.arg)>> \o inner.events
    IN  CASE h.does = "respond" ->
                Run(started, FALSE, Value("Response", <<"short-circuit">>))
          [] h.does = "nothing" -> Run(started, FALSE, Value("undefined", <<>>))
          [] h.does = "string" -> Run(started, FALSE, Value("string", <<>>))
          [] inner.value.kind = "TypeError" ->
                Run(after, inner.nextCalled, inner.value)
          [] h.does = "next" -> Run(after, inner.nextCalled, inner.value)
          [] h.does = "forget" ->
                Run(after, inner.nextCalled, Value("undefined", <<>>))
          [] h.does = "nextString" ->
                Run(after, inner.nextCalled, Value("string", <<>>))
          [] h.does = "modify" ->
                Run(after, inner.nextCalled,
                    IF inner.value.kind = "Response"
                    THEN Value("Response", <<"modified">> \o inner.value.body)
                    ELSE Value("TypeError", <<>>))

\* sequence that calls its handlers from the last to the first.
sequence_lastFirst(handlers) ==
    LET filtered == filterHandlers(handlers)
        reversed == [i \in 1..Len(filtered) |-> filtered[Len(filtered) + 1 - i]]
    IN  IF filtered = <<>> THEN responseFunction ELSE applyHandle(reversed, 1)

\* sequence(...handlers), called as a middleware: without handlers it
\* returns next(), otherwise it applies the first handler.
sequence(handlers) ==
    LET filtered == filterHandlers(handlers)
    IN  IF filtered = <<>> THEN responseFunction ELSE applyHandle(filtered, 1)

\* callMiddleware that returns the page whenever next() was called.
callMiddleware_pageFirst(run) ==
    IF run.value.kind = "TypeError" THEN Value("TypeError", <<>>)
    ELSE IF run.nextCalled THEN Value("Response", <<"page">>)
    ELSE IF run.value.kind = "undefined"
    THEN Value("MiddlewareNoDataOrNextCalled", <<>>)
    ELSE IF run.value.kind # "Response" THEN Value("MiddlewareNotAResponse", <<>>)
    ELSE run.value

\* callMiddleware(onRequest, apiContext, responseFunction), given what the
\* middleware did: the Response it resolves to or the error it rejects
\* with.
callMiddleware(run) ==
    IF run.value.kind = "TypeError" THEN Value("TypeError", <<>>)
    ELSE IF run.nextCalled
    THEN IF run.value.kind = "undefined" THEN Value("Response", <<"page">>)
         ELSE IF run.value.kind # "Response"
         THEN Value("MiddlewareNotAResponse", <<>>)
         ELSE run.value
    ELSE IF run.value.kind = "undefined"
    THEN Value("MiddlewareNoDataOrNextCalled", <<>>)
    ELSE IF run.value.kind # "Response" THEN Value("MiddlewareNotAResponse", <<>>)
    ELSE run.value

\* The sequences of at most n arguments.
Handlers(n) == UNION {[1..k -> HandlerArgs] : k \in 0..n}

\* A request: callMiddleware(sequence(...handlers), ctx, responseFn).
onRequest(handlers) ==
    LET run == sequence(handlers)
    IN  /\ request' = [handlers |-> handlers, events |-> run.events,
                       nextCalled |-> run.nextCalled, value |-> run.value,
                       outcome |-> callMiddleware(run)]
        /\ UNCHANGED <<registryVars, calls, filterVars, consoleVars, extractVars,
                       shikiVars>>

MiddlewareNext == \E handlers \in Handlers(MaxHandlers) : onRequest(handlers)

MiddlewareSpec == Init /\ [][MiddlewareNext]_vars

(* ---------------------------------------------------------------------- *)
(* extractDirectives in use                                                *)
(* ---------------------------------------------------------------------- *)

\* The attributes a page author writes on a component, none of them a
\* directive: clientId does not start with "client:".
OwnProps ==
    (<<"", "title">> :> Str(<<"Counter">>))
        @@ (<<"", "clientId">> :> Str(<<"c1">>))
        @@ (<<"", "class">> :> Str(<<"big">>))

\* $$renderComponent(result, displayName, Component, props): the runtime
\* takes the directives out of the props the compiler wrote.
renderComponent(keys, Component, usage) ==
    LET inputProps == CompilerPropsWith([k \in keys |-> OwnProps[k]], Component, usage)
    IN  /\ extractInput' = inputProps
        /\ extractOutput' = extractDirectives(inputProps)
        /\ UNCHANGED <<registryVars, calls, filterVars, consoleVars, shikiVars,
                       middlewareVars>>

ExtractNext ==
    \E keys \in SUBSET DOMAIN OwnProps, Component \in Components, usage \in Usages :
        renderComponent(keys, Component, usage)

ExtractSpec == Init /\ [][ExtractNext]_vars

(* ---------------------------------------------------------------------- *)
(* Properties of the renderer selection                                    *)
(* ---------------------------------------------------------------------- *)

Active(p) == calls[p].pc # "idle"

Done(p) == calls[p].pc = "done"

Indices == 1..Len(renderers)

\* What check() of the i-th renderer returns for the component of call p.
CheckOf(p, i) ==
    check(opts, renderers[i].name, calls[p].Component, calls[p].metadata)

\* The i-th renderer has a filter, the call has a componentUrl and the
\* filter rejects it.
FilterRejects(p, i) ==
    /\ hasFilter(opts, renderers[i].name)
    /\ Truthy(calls[p].metadata.componentUrl)
    /\ ~filter(opts, renderers[i].name, calls[p].metadata.componentUrl)

Least(S) == CHOOSE i \in S : \A j \in S : i <= j

\* woof({ include: '**/*.woof.jsx' }), meow({ include: '**/*.meow.jsx' })
IncludeOptions ==
    Options(OnePattern(WoofGlob), NullPattern, OnePattern(MeowGlob), NullPattern)

\* The renderers were registered in the order [woof, meow].
WoofThenMeow ==
    /\ Len(renderers) >= 2
    /\ renderers[1].name = "woof"
    /\ renderers[2].name = "meow"

C2_IncludePartitioned ==
    \A p \in Procs :
        /\ Done(p)
        /\ opts = IncludeOptions
        /\ WoofThenMeow
        /\ calls[p].metadata.hydrate = "load"
        /\ calls[p].Component \in {WoofCounter, MeowCounter}
        => /\ calls[p].result.kind = "Selected"
           /\ renderers[calls[p].result.index].name =
                 (IF calls[p].Component = WoofCounter THEN "woof" ELSE "meow")

\* MeowCounter with client:load resolved to meow, the second renderer, after
\* woof's check() was called first.
C2_Witness ==
    \E p \in Procs :
        /\ Done(p)
        /\ opts = IncludeOptions
        /\ WoofThenMeow
        /\ calls[p].metadata.hydrate = "load"
        /\ calls[p].Component = MeowCounter
        /\ 1 \in calls[p].checked
        /\ calls[p].result.index = 2

OnlyNamesRegistered(p) ==
    /\ calls[p].metadata.hydrate = "only"
    /\ \E i \in Indices : calls[p].metadata.hydrateArgs = Str(<<renderers[i].name>>)

C5_FirstMatchWins ==
    \A p \in Procs :
        /\ \A i \in calls[p].checked : i <= calls[p].idx
        /\ calls[p].result.kind = "Selected" /\ calls[p].result.via = "check" =>
              LET s == calls[p].result.index
              IN  /\ CheckOf(p, s) = "true"
                  /\ \A j \in Indices : j < s => CheckOf(p, j) # "true"
                  /\ \A j \in Indices : j > s => j \notin calls[p].checked

\* The first renderer was selected and the second, whose check() would
\* also return true, was not asked.
C5_Witness ==
    \E p \in Procs :
        /\ Done(p)
        /\ calls[p].result.via = "check"
        /\ calls[p].result.index = 1
        /\ Len(renderers) >= 2
        /\ CheckOf(p, 2) = "true"
        /\ calls[p].checked = {1}

\* C6: two selections of the same component with the same metadata, one
\* after the other or interleaved, have the same result.
C6_Deterministic ==
    \A p, q \in Procs :
        /\ Done(p)
        /\ Done(q)
        /\ calls[p].Component = calls[q].Component
        /\ calls[p].metadata = calls[q].metadata
        => calls[p].result = calls[q].result

\* Two finished selections of one component, both made by the check() loop
\* with a try-render.
C6_Witness ==
    /\ \A p \in Procs : Done(p) /\ calls[p].result.via = "check" /\ calls[p].probed # {}
    /\ \A p, q \in Procs :
          /\ calls[p].Component = calls[q].Component
          /\ calls[p].metadata = calls[q].metadata

\* C7: with include-partitioned renderers registered as [woof, meow], a
\* component of a meow file used without a directive resolves to woof; no
\* filter is applied without a componentUrl.
C7_SsrOnlyAmbiguity ==
    \A p \in Procs :
        /\ /\ Done(p)
           /\ opts = IncludeOptions
           /\ WoofThenMeow
           /\ calls[p].metadata.hydrate = ""
           /\ calls[p].Component = MeowCounter
           => /\ calls[p].metadata.componentUrl = Undefined
              /\ calls[p].result = Selected(1, "check")
              /\ 1 \in calls[p].probed
        /\ ~Truthy(calls[p].metadata.componentUrl) /\ calls[p].Component.isFunction
              => calls[p].checked \subseteq calls[p].probed

\* MeowCounter without a directive, claimed by woof although both renderers
\* have an include pattern and woof's does not match the file.
C7_Witness ==
    \E p \in Procs :
        /\ Done(p)
        /\ opts = IncludeOptions
        /\ WoofThenMeow
        /\ calls[p].metadata.hydrate = ""
        /\ calls[p].Component = MeowCounter
        /\ ~filter(opts, "woof", Str(calls[p].Component.file))
        /\ calls[p].result.index = 1

\* The probable renderer names for the extension of a componentUrl.
ProbableFor(componentUrl) ==
    LET c == componentUrl.chars
        last == IF componentUrl.type = "string" /\ c # <<>> THEN c[Len(c)] ELSE ""
    IN  CASE last = "svelte" -> <<"@astrojs/svelte">>
          [] last = "vue" -> <<"@astrojs/vue">>
          [] last \in {"jsx", "tsx"} ->
                <<"@astrojs/react", "@astrojs/preact", "@astrojs/solid-js",
                  "@astrojs/vue (jsx)">>
          [] OTHER ->
                <<"@astrojs/react", "@astrojs/preact", "@astrojs/solid-js",
                  "@astrojs/vue", "@astrojs/svelte">>

C9_ThrowContinues ==
    \A p \in Procs :
        Done(p) /\ calls[p].result.via = "check" =>
            LET accepting == {j \in Indices : CheckOf(p, j) = "true"}
            IN  \A i \in Indices :
                    CheckOf(p, i) = "throw" /\ (\E j \in accepting : i < j) =>
                        /\ calls[p].result.kind = "Selected"
                        /\ calls[p].result.index = Least(accepting)
                        /\ calls[p].result.cause = 0
                        /\ calls[p].result.error = ""

\* The first renderer's check() threw in its try-render and the second
\* renderer was selected.
C9_Witness ==
    \E p \in Procs :
        /\ Done(p)
        /\ 1 \in calls[p].probed
        /\ CheckOf(p, 1) = "throw"
        /\ calls[p].error = 1
        /\ calls[p].result = Selected(2, "check")

\* C10: a failed check() loop carries the error thrown by the first
\* renderer whose check() threw, and none if no check() threw.
C10_FirstError ==
    \A p \in Procs :
        Done(p) /\ calls[p].result.via = "check" /\ calls[p].result.kind = "Failed" =>
            LET throwing == {i \in Indices : CheckOf(p, i) = "throw"}
            IN  calls[p].result.cause = (IF throwing = {} THEN 0 ELSE Least(throwing))

\* Two checks threw and the failure carries the error of the first.
C10_Witness ==
    \E p \in Procs :
        /\ Done(p)
        /\ calls[p].result.kind = "Failed"
        /\ calls[p].probed = {1, 2}
        /\ CheckOf(p, 1) = "throw"
        /\ CheckOf(p, 2) = "throw"
        /\ calls[p].result.cause = 1

(* ---------------------------------------------------------------------- *)
(* Properties of the renderer registration                                 *)
(* ---------------------------------------------------------------------- *)

\* A descriptor with an empty name or without a server entrypoint.
Malformed(renderer) == renderer.name = "" \/ renderer.serverEntrypoint = ""

\* The descriptors of the addRenderer calls that did not throw, in the
\* order of the calls.
Accepted ==
    LET ok == SelectSeq(addRendererCalls, LAMBDA c : ~c.threw)
    IN  [i \in 1..Len(ok) |-> ok[i].renderer]

IsTemplate(renderer) == renderer.name = "astro:jsx"

NonTemplate(list) == SelectSeq(list, LAMBDA r : ~IsTemplate(r))

Templates(list) == SelectSeq(list, IsTemplate)

\* C11: once the setup has ended, the renderer list holds the registered
\* descriptors other than astro:jsx in the order of their registration,
\* followed by the astro:jsx descriptor if one was registered, at whatever
\* position.
C11_RegistryOrdering ==
    finalized =>
        renderers = NonTemplate(Accepted)
                        \o (IF Templates(Accepted) = <<>> THEN <<>>
                            ELSE <<Templates(Accepted)[Len(Templates(Accepted))]>>)

\* astro:jsx was registered first, another renderer after it, and the
\* finalized list ends with astro:jsx.
C11_Witness ==
    /\ finalized
    /\ Len(addRendererCalls) = 2
    /\ IsTemplate(addRendererCalls[1].renderer)
    /\ ~addRendererCalls[2].threw
    /\ Len(renderers) = 2
    /\ renderers[1] = addRendererCalls[2].renderer
    /\ IsTemplate(renderers[2])

\* C12: addRenderer throws for every descriptor with an empty name or
\* without a server entrypoint, no such descriptor is ever in the list, and
\* the descriptors registered before and after such a call are all there,
\* in their order.
C12_RegistrationRejects ==
    /\ \A i \in 1..Len(addRendererCalls) :
          Malformed(addRendererCalls[i].renderer) => addRendererCalls[i].threw
    /\ \A i \in Indices : ~Malformed(renderers[i])
    /\ astroJSXRenderer # NoRenderer => ~Malformed(astroJSXRenderer)
    /\ NonTemplate(renderers) = NonTemplate(Accepted)

\* A call with a malformed descriptor threw, the integration went on to
\* register a renderer, and the finalized list holds that renderer alone.
C12_Witness ==
    /\ finalized
    /\ Len(addRendererCalls) = 2
    /\ Malformed(addRendererCalls[1].renderer)
    /\ addRendererCalls[1].threw
    /\ ~addRendererCalls[2].threw
    /\ renderers = <<addRendererCalls[2].renderer>>

Called == returned # "none"

\* RegExp objects that were never used.
Fresh == [re \in RegExps |-> 0]

ForwardSlashes(chars) ==
    [i \in 1..Len(chars) |-> IF chars[i] = Backslash THEN "/" ELSE chars[i]]

\* A string without a null byte.
CleanString(v) ==
    v.type = "string" /\ \A i \in 1..Len(v.chars) : v.chars[i] # NullByte

\* The patterns of an include or exclude option.
ListOf(thing) == IF thing.tag = "null" THEN <<>> ELSE thing.ps

\* A pattern matches a path: a glob by picomatch, a RegExp by a search with
\* a pattern object that was never used, both on the path written with
\* forward slashes.
PatternMatches(pattern, chars) ==
    IF pattern.kind = "regexp"
    THEN RegExpTest(pattern, ForwardSlashes(chars), Fresh).ok
    ELSE picomatch(ForwardSlashes(pattern.src), ForwardSlashes(chars))

AnyMatch(thing, v) ==
    /\ v.type = "string"
    /\ \E i \in 1..Len(ListOf(thing)) : PatternMatches(ListOf(thing)[i], v.chars)

\* C14: a string that matches an exclude pattern is rejected, also when it
\* matches an include pattern.
C14_ExcludePrecedence ==
    Called /\ AnyMatch(patterns.exclude, tested) => returned = "false"

\* A path matching both an include and an exclude pattern was rejected.
C14_Witness ==
    /\ Called
    /\ CleanString(tested)
    /\ AnyMatch(patterns.exclude, tested)
    /\ AnyMatch(patterns.include, tested)
    /\ returned = "false"

\* C15: without include patterns (null, undefined or an empty array) every
\* string without a null byte that matches no exclude pattern passes.
C15_PassThroughDefault ==
    /\ Called
    /\ Len(ListOf(patterns.include)) = 0
    /\ CleanString(tested)
    /\ ~AnyMatch(patterns.exclude, tested)
    => returned = "true"

\* A filter with exclude patterns only passed a path that none of them
\* matches.
C15_Witness ==
    /\ Called
    /\ Len(ListOf(patterns.include)) = 0
    /\ Len(ListOf(patterns.exclude)) > 0
    /\ CleanString(tested)
    /\ tested.chars # <<>>
    /\ ~AnyMatch(patterns.exclude, tested)
    /\ returned = "true"

\* C16: with at least one include pattern, every string that matches none
\* of the include patterns is rejected.
C16_IncludeRequired ==
    /\ Called
    /\ Len(ListOf(patterns.include)) > 0
    /\ ~AnyMatch(patterns.include, tested)
    => returned = "false"

\* A filter with one include pattern, given as a single value, and no
\* exclude pattern rejected a path the pattern does not match.
C16_Witness ==
    /\ Called
    /\ patterns.include.tag = "one"
    /\ Len(ListOf(patterns.exclude)) = 0
    /\ CleanString(tested)
    /\ tested.chars # <<>>
    /\ ~AnyMatch(patterns.include, tested)
    /\ returned = "false"

\* C17: a value that is not a string, and a string with a null byte, is
\* rejected whatever the patterns, and no pattern is consulted: the
\* lastIndex of every RegExp is what it was when the call began.
C17_RejectsNonPaths ==
    Called /\ ~CleanString(tested) =>
        /\ returned = "false"
        /\ lastIndex = lastIndexAtCall

\* A string with a null byte that an include pattern matches was rejected,
\* and the lastIndex a former call left on that pattern is still there.
C17_Witness ==
    /\ Called
    /\ tested.type = "string"
    /\ ~CleanString(tested)
    /\ patterns.include = OnePattern(TsxEndGlobal)
    /\ AnyMatch(patterns.include, tested)
    /\ lastIndexAtCall[TsxEndGlobal] > 0
    /\ lastIndex = lastIndexAtCall
    /\ returned = "false"

\* C18: whatever lastIndex the former calls left on the RegExp objects, a
\* call returns what the first call of a filter built from unused patterns
\* returns for that input.
C18_StatelessRegExp ==
    Called =>
        returned = createFilter(patterns.include, patterns.exclude, tested, Fresh).returns

\* A filter on /\.tsx$/g was called on a second .tsx path, with the
\* lastIndex of the first match on the pattern, and passed it.
C18_Witness ==
    /\ Called
    /\ patterns = Patterns(OnePattern(TsxEndGlobal), NullPattern)
    /\ lastIndexAtCall[TsxEndGlobal] = Len(tested.chars)
    /\ Len(tested.chars) > 0
    /\ returned = "true"

\* C19: for a string without a null byte, the filter returns what it
\* returns for that string with every backslash replaced by a forward
\* slash.
C19_SeparatorIndependence ==
    Called /\ CleanString(tested) =>
        returned = createFilter(patterns.include, patterns.exclude,
                                Str(ForwardSlashes(tested.chars)),
                                lastIndexAtCall).returns

\* A path written with backslashes passed a filter whose include glob is
\* written with forward slashes.
C19_Witness ==
    /\ Called
    /\ CleanString(tested)
    /\ \E i \in 1..Len(tested.chars) : tested.chars[i] = Backslash
    /\ patterns.include = ArrayPattern(<<TsGlob>>)
    /\ returned = "true"

\* C20: every call of a filter returns true or false; none throws.
C20_FilterTotal ==
    Called => returned \in {"true", "false"}

\* A filter with patterns was called with a value that is not a string and
\* returned false.
C20_Witness ==
    /\ Called
    /\ tested \in {FortyTwo, Null, Undefined}
    /\ Len(ListOf(patterns.include)) > 0
    /\ returned = "false"


(* ---------------------------------------------------------------------- *)
(* Properties of the console filter                                        *)
(* ---------------------------------------------------------------------- *)

\* console.error is the filter.
Installed == consoleError = "filtered"

\* The try-renders in progress.
Probing == {p \in Procs : tryRenders[p] = "running"}

\* A message the filter knows as noise.
Noise(msg) == isKnownReactHookError(msg) \/ isKnownReact19HookError(msg)

\* The calls that went through the filter with a message that is not noise.
Relevant(log) == SelectSeq(log, LAMBDA e : e.by = "filtered" /\ ~Noise(e.msg))

\* The calls that went through the filter, whatever their message.
Filtered(log) == SelectSeq(log, LAMBDA e : e.by = "filtered")

\* C21: once console.error has been replaced by the filter it stays
\* replaced in every later state, whatever use and finish calls follow,
\* also when the reference counter is back at zero.
C21_Permanence ==
    [][Installed => Installed' /\ originalConsoleError' = "native"]_vars

C21_Witness == Installed /\ consoleFilterRefs = 0 /\ errors # <<>>

\* C22: under every interleaving of try-renders the reference counter is
\* never negative and equals the number of try-renders that have called
\* useConsoleFilter and not yet finishUsingConsoleFilter, so it is 0 when
\* none is in progress.
C22_Counting ==
    /\ consoleFilterRefs >= 0
    /\ consoleFilterRefs = Cardinality(Probing)
    /\ (Probing = {} => consoleFilterRefs = 0)

C22_Witness == consoleFilterRefs = 2 /\ Probing = Procs

\* C23: with the filter installed and not disabled, every message without
\* a known signature reaches the original console.error once, unchanged and
\* in order, and every message that does not reach it has a known signature.
C23_ForwardsTheRest ==
    /\ Relevant(stderr) = Relevant(errors)
    /\ ~disableConsoleFilter =>
           /\ Filtered(stderr) = Relevant(errors)
           /\ Len(Filtered(errors)) - Len(Filtered(stderr))
                  = Cardinality({i \in 1..Len(errors) :
                                    errors[i].by = "filtered" /\ Noise(errors[i].msg)})

C23_Witness ==
    /\ ~disableConsoleFilter
    /\ Len(errors) = 3
    /\ \A i \in 1..3 : errors[i].by = "filtered"
    /\ errors[1].msg = HookError19
    /\ errors[2].msg = HookWords
    /\ errors[3].msg = OtherError
    /\ stderr = <<errors[2], errors[3]>>

(* ---------------------------------------------------------------------- *)
(* Properties of extractDirectives                                         *)
(* ---------------------------------------------------------------------- *)

\* The keys the runtime reserves: the directives and what the compiler
\* writes next to them.
ReservedKeys(inputProps) == {k \in DOMAIN inputProps : k[1] = "client"}

\* C24: a property bag without a client: key yields no directive, no
\* componentUrl and no export name, and the metadata made from any
\* extraction has a componentUrl only if it has a directive.
C24_SsrOnly ==
    LET metadata == Metadata(extractOutput.hydration)
    IN  /\ ReservedKeys(extractInput) = {} =>
               /\ metadata.hydrate = ""
               /\ metadata.componentUrl = Undefined
               /\ metadata.componentExport = Undefined
        /\ metadata.componentUrl # Undefined => metadata.hydrate # ""

C24_Witness ==
    /\ DOMAIN extractInput = {<<"", "title">>, <<"", "clientId">>}
    /\ extractOutput.hydration = NoHydration
    /\ extractOutput.props = extractInput

\* C25: the forwarded props are exactly the keys of the input that are not
\* reserved, each with the value it has in the input.
C25_Partition ==
    /\ DOMAIN extractOutput.props = DOMAIN extractInput \ ReservedKeys(extractInput)
    /\ \A k \in DOMAIN extractOutput.props : extractOutput.props[k] = extractInput[k]

C25_Witness ==
    /\ <<"client", "only">> \in DOMAIN extractInput
    /\ <<"client", "component-path">> \in DOMAIN extractInput
    /\ <<"client", "component-export">> \in DOMAIN extractInput
    /\ DOMAIN extractOutput.props = {<<"", "clientId">>, <<"", "class">>}
    /\ extractOutput.hydration.directive = "only"


(* ---------------------------------------------------------------------- *)
(* Properties of the islands and of unconfigured renderers                 *)
(* ---------------------------------------------------------------------- *)

\* Call p has selected a renderer for a component with a directive.
Hydrated(p) ==
    /\ Done(p)
    /\ calls[p].result.kind = "Selected"
    /\ calls[p].metadata.hydrate # ""

\* C26: the island of a hydrated component names the client entrypoint of
\* the renderer the selection chose and the componentUrl of the metadata,
\* also when that renderer is the first one and claimed a component of
\* another framework.
C26_IslandConsistency ==
    \A p \in Procs :
        Hydrated(p) =>
            LET R == renderers[calls[p].result.index]
            IN  /\ calls[p].island.rendererUrl = R.clientEntrypoint
                /\ calls[p].island.rendererUrl = R.name \o "-client"
                /\ calls[p].island.componentUrl = calls[p].metadata.componentUrl
                /\ calls[p].island.componentUrl = Str(calls[p].Component.file)

\* Without options, woof claimed MeowCounter with client:load: the island
\* loads MeowCounter.meow.jsx with woof's client.
C26_Witness ==
    \E p \in Procs :
        /\ Hydrated(p)
        /\ WoofThenMeow
        /\ calls[p].Component = MeowCounter
        /\ calls[p].metadata.hydrate = "load"
        /\ calls[p].result.via = "check"
        /\ calls[p].island.rendererUrl = "woof-client"
        /\ calls[p].island.componentUrl = Str(MeowFile)

\* woof() and meow() without include or exclude.
NoOptions == Options(NullPattern, NullPattern, NullPattern, NullPattern)

\* C27: without include or exclude no renderer has a filter, check() is
\* its try-render whatever the componentUrl, and with [woof, meow] the first
\* renderer is selected for every function component its try-render
\* accepts, without a directive and with client:load alike.
C27_Unconfigured ==
    opts = NoOptions =>
        /\ \A n \in {"woof", "meow"} : ~hasFilter(opts, n)
        /\ \A p \in Procs : \A i \in Indices :
               Active(p) /\ calls[p].Component.isFunction =>
                   CheckOf(p, i) = calls[p].Component.tryRender[renderers[i].name]
        /\ \A p \in Procs :
               /\ Done(p)
               /\ Len(renderers) = 2
               /\ WoofThenMeow
               /\ calls[p].metadata.hydrate \in {"", "load"}
               /\ calls[p].Component.isFunction
               /\ calls[p].Component.tryRender["woof"] = "true"
               => /\ calls[p].result = Selected(1, "check")
                  /\ calls[p].checked = {1}

\* MeowCounter without a directive in one render and with client:load in
\* another, both claimed by woof.
C27_Witness ==
    /\ opts = NoOptions
    /\ Len(renderers) = 2
    /\ WoofThenMeow
    /\ \A p \in Procs : Done(p) /\ calls[p].Component = MeowCounter
    /\ calls[1].metadata.hydrate = ""
    /\ calls[2].metadata.hydrate = "load"
    /\ \A p \in Procs : calls[p].result = Selected(1, "check")

\* The component of call p carries a tag that names no registered renderer.
Stale(p) ==
    /\ Active(p)
    /\ calls[p].Component.tag # NoTag
    /\ \A i \in Indices : renderers[i].name # calls[p].Component.tag

\* Call q renders the component of call p without its tag, used the same way.
Twin(p, q) ==
    /\ calls[q].Component.tag = NoTag
    /\ calls[q].Component.file = calls[p].Component.file
    /\ calls[q].Component.isFunction = calls[p].Component.isFunction
    /\ calls[q].Component.tryRender = calls[p].Component.tryRender
    /\ calls[q].metadata = calls[p].metadata

\* C28: a tag that names no registered renderer does not end the
\* selection: nothing is selected or failed because of the tag, the
\* selection goes on with client:only and the check() loop, and its result
\* is the result for the same component without the tag.
C28_StaleTag ==
    \A p \in Procs :
        Stale(p) =>
            /\ calls[p].result.via # "tag"
            /\ Done(p) /\ calls[p].metadata.hydrate # "only" /\ renderers # <<>>
                  => 1 \in calls[p].checked
            /\ \A q \in Procs :
                   Done(p) /\ Done(q) /\ Twin(p, q) =>
                       /\ calls[q].result = calls[p].result
                       /\ calls[q].checked = calls[p].checked
                       /\ calls[q].island = calls[p].island

\* Orphan, tagged "ghost", and WoofCounter, the same component untagged,
\* both with client:load and both selected by the check() loop.
C28_Witness ==
    /\ calls[1].Component = Orphan
    /\ calls[2].Component = WoofCounter
    /\ Stale(1)
    /\ Twin(1, 2)
    /\ Done(1) /\ Done(2)
    /\ calls[1].metadata.hydrate = "load"
    /\ calls[1].result.kind = "Selected"
    /\ calls[1].result.via = "check"
    /\ calls[2].result = calls[1].result


(* ---------------------------------------------------------------------- *)
(* Isolation of the selections                                             *)
(* ---------------------------------------------------------------------- *)

\* The result of call p is the one of its own component: the renderer the
\* loop selected is the first whose check() accepts it, and the loop failed
\* only if none does.
OwnResult(p) ==
    LET accepting == {i \in Indices : CheckOf(p, i) = "true"}
    IN  /\ Done(p)
        /\ calls[p].result.via = "check"
        /\ IF accepting = {} THEN calls[p].result.kind = "Failed"
           ELSE calls[p].result = Selected(Least(accepting), "check")

\* C29: whatever the check() calls of process 1 do, never returning
\* included, a selection of process 2 whose own check() calls return ends
\* with the result for its own component.
C29_Isolation ==
    (calls[2].pc \in {"loop", "await"}) ~> OwnResult(2)

\* Process 2 has finished a selection that waited for a try-render while
\* the selection of process 1 is still waiting for one.
C29_Witness ==
    /\ calls[1].pc = "await"
    /\ OwnResult(2)
    /\ calls[2].probed # {}


(* ---------------------------------------------------------------------- *)
(* Properties of createShikiHighlighter                                    *)
(* ---------------------------------------------------------------------- *)

\* The calls of p and q have equal theme, themes and langAlias options.
SameOptions(p, q) ==
    /\ shikiCalls[p].theme = shikiCalls[q].theme
    /\ shikiCalls[p].themes = shikiCalls[q].themes
    /\ shikiCalls[p].langAlias = shikiCalls[q].langAlias

Issued(p) == shikiCalls[p].pc # "idle"

\* C30 as stated: any two calls with equal theme, themes and langAlias get
\* the same highlighter, whatever their langs and whenever they were made.
C30_AsStated ==
    \A p, q \in Procs :
        Issued(p) /\ Issued(q) /\ SameOptions(p, q) =>
            shikiCalls[p].promise = shikiCalls[q].promise

\* C30 (amended): two calls with equal theme, themes and langAlias between
\* which the cache was not cleared get the same highlighter, whatever their
\* langs and whether or not the first creation had finished, and between
\* two clearings at most one highlighter is created per key.
C30_ReusePerKey ==
    /\ \A p, q \in Procs :
           /\ Issued(p) /\ Issued(q)
           /\ SameOptions(p, q)
           /\ shikiCalls[p].epoch = shikiCalls[q].epoch
           => shikiCalls[p].promise = shikiCalls[q].promise
    /\ \A i, j \in 1..Len(highlighterPromises) :
           /\ highlighterPromises[i].key = highlighterPromises[j].key
           /\ highlighterPromises[i].epoch = highlighterPromises[j].epoch
           => i = j

\* Two calls with the same themes written in different orders and with
\* different langs, both resolved to the one highlighter, which has loaded
\* the languages of both.
C30_Witness ==
    /\ \A p \in Procs : shikiCalls[p].pc = "resolved"
    /\ SameOptions(1, 2)
    /\ shikiCalls[1].themes # {}
    /\ shikiCalls[1].langs # shikiCalls[2].langs
    /\ shikiCalls[1].promise = shikiCalls[2].promise
    /\ Len(highlighterPromises) = 1
    /\ highlighterPromises[1].loaded = {"js", "ts"}


\* How often loadLanguage was called with lang on the i-th highlighter.
Loads(i, lang) ==
    Cardinality({n \in 1..Len(highlighterPromises[i].loadLanguage) :
                    highlighterPromises[i].loadLanguage[n] = lang})

Truthies == {i \in 1..Len(request.handlers) : request.handlers[i] \in HandlerKinds}

\* The positions in the log at which something happened.
At(what, handler) ==
    {n \in 1..Len(request.events) : request.events[n] = Event(what, handler)}

\* Handler i returns without calling next().
Stops(i) == request.handlers[i] \in {"respond", "nothing", "string"}

C33_Outcome ==
    request.outcome.kind # "none" =>
        LET nextCalled == At("page", 0) # {}
            result == request.value
        IN  /\ result.kind = "undefined" /\ ~nextCalled =>
                   request.outcome.kind = "MiddlewareNoDataOrNextCalled"
            /\ result.kind = "undefined" /\ nextCalled =>
                   request.outcome = Value("Response", <<"page">>)
            /\ result.kind = "string" =>
                   request.outcome.kind = "MiddlewareNotAResponse"
            /\ result.kind = "Response" => request.outcome = result

\* A handler awaited next() and returned a string: the page was rendered
\* and the call fails with MiddlewareNotAResponse.
C33_Witness ==
    /\ request.handlers = <<"nextString">>
    /\ At("page", 0) # {}
    /\ request.outcome.kind = "MiddlewareNotAResponse"


(* ---------------------------------------------------------------------- *)
(* Properties of the order of the selection's states                       *)
(* ---------------------------------------------------------------------- *)

\* The renderer the client:only directive of call p names, 0 if none.
NamedByOnly(p) ==
    IF calls[p].metadata.hydrate = "only" /\ Truthy(calls[p].metadata.hydrateArgs)
          /\ Len(calls[p].metadata.hydrateArgs.chars) = 1
    THEN find(renderers, calls[p].metadata.hydrateArgs.chars[1])
    ELSE 0

OnlyUntagged(p) ==
    /\ Active(p)
    /\ calls[p].metadata.hydrate = "only"
    /\ find(renderers, calls[p].Component.tag) = 0

\* Neither the name of the directive, nor a single renderer other than
\* astro:jsx, nor the extension of the componentUrl gives a renderer.
NoFallback(p) ==
    /\ NamedByOnly(p) = 0
    /\ Cardinality({i \in Indices : renderers[i].name # "astro:jsx"}) # 1
    /\ \A i \in Indices :
           Str(<<renderers[i].name>>) # extname(calls[p].metadata.componentUrl)

\* C35: a selection with client:only that is not resolved by a tag ends at
\* once, without entering the check() loop and without any check() call; if
\* the directive names no registered renderer and neither fallback applies
\* it fails with NoMatchingRenderer.
C35_OnlyTerminal ==
    \A p \in Procs :
        OnlyUntagged(p) =>
            /\ Done(p)
            /\ calls[p].idx = 0
            /\ calls[p].checked = {}
            /\ calls[p].probed = {}
            /\ calls[p].result.kind \in {"Selected", "Failed"}
            /\ NoFallback(p) =>
                   /\ calls[p].result.kind = "Failed"
                   /\ calls[p].result.error = "NoMatchingRenderer"

\* client:only="vue" while woof and meow are registered, on a component
\* the check() of woof would accept: the selection fails and no check() is
\* called.
C35_Witness ==
    \E p \in Procs :
        /\ OnlyUntagged(p)
        /\ NoFallback(p)
        /\ Len(renderers) = 2
        /\ renderers[1].name # renderers[2].name
        /\ CheckOf(p, 1) = "true"
        /\ calls[p].result.kind = "Failed"
        /\ calls[p].checked = {}


(* ---------------------------------------------------------------------- *)
(* Properties of the renderer list as a set of names                       *)
(* ---------------------------------------------------------------------- *)

\* C36: no two descriptors of the renderer list have the same name, before
\* and after the setup has ended.
C36_AsStated ==
    \A i, j \in Indices : renderers[i].name = renderers[j].name => i = j


(* ---------------------------------------------------------------------- *)
(* Properties of the result of a selection                                 *)
(* ---------------------------------------------------------------------- *)

resolveStep(p) == callCheck(p) \/ settleCheck(p)

\* woof({ include: '**/*.woof.jsx' }) and meow({ include: '**/*.meow.jsx' })
\* are registered and the site is being served.
ServingPartitioned == Serving /\ opts = IncludeOptions

\* Every selection goes on: its loop calls the next check() and every
\* check() that was called returns or throws.
TerminationSpec ==
    /\ ServingPartitioned
    /\ [][RenderNext]_vars
    /\ \A p \in Procs : WF_vars(resolveStep(p))

\* The check() calls of call p so far are those of the first renderers of
\* the list, one each, in the order of the list.
InOrder(p) ==
    /\ Len(calls[p].invoked) <= Len(renderers)
    /\ \A n \in 1..Len(calls[p].invoked) : calls[p].invoked[n] = n

\* C38: if the loop goes on and every check() that was called returns or
\* throws, every selection ends, selected or failed, and at every moment
\* it has called the check() of each renderer at most once and in the order
\* of the list.
C38_Terminates ==
    \A p \in Procs :
        (calls[p].pc \in {"loop", "await"}) ~>
            /\ Done(p)
            /\ calls[p].result.kind \in {"Selected", "Failed"}
            /\ InOrder(p)

\* A selection that ended after the check() of both renderers was called,
\* the first having thrown.
C38_Witness ==
    \E p \in Procs :
        /\ Done(p)
        /\ calls[p].invoked = <<1, 2>>
        /\ calls[p].probed = {1, 2}
        /\ calls[p].error = 1


(* ---------------------------------------------------------------------- *)
(* Properties of concurrent selections                                     *)
(* ---------------------------------------------------------------------- *)

\* The check() loop run from a call record to its end with nothing in
\* between: each check() is called and its outcome handled at once.
RECURSIVE runAlone(_, _, _)
runAlone(list, options, call) ==
    IF call.pc # "loop" THEN call
    ELSE LET name == list[call.idx].name
             early == rejectsEarly(options, name, call.Component, call.metadata)
             called == [call EXCEPT !.checked = @ \cup {call.idx},
                                    !.invoked = Append(@, call.idx),
                                    !.probed = IF early THEN @ ELSE @ \cup {call.idx}]
             outcome == IF early THEN "false"
                        ELSE check(options, name, call.Component, call.metadata)
         IN  runAlone(list, options, afterCheck(list, called, outcome))

\* The call record of the selection of call p's component with its
\* metadata when no other selection runs.
Alone(p) ==
    renderIsland(renderers,
        runAlone(renderers, opts,
                 startResolve(renderers, calls[p].Component, calls[p].metadata)))

\* C39: however the steps of several selections are interleaved at their
\* check() calls, a selection that has ended has the result, the captured
\* error, the check() calls and the island it has when it runs alone with
\* the same renderer list, component and metadata.
C39_NoInterference ==
    \A p \in Procs : Done(p) => calls[p] = Alone(p)

\* A selection that ended at the second renderer while the selection of
\* another component, whose check() of the first renderer was called
\* as well, is still waiting.
C39_Witness ==
    \E p, q \in Procs :
        /\ Done(p)
        /\ calls[p].result = Selected(2, "check")
        /\ calls[p].probed = {1, 2}
        /\ calls[q].pc = "await"
        /\ calls[q].Component # calls[p].Component
        /\ calls[q].idx = 1


(* ---------------------------------------------------------------------- *)
(* Properties of the installation of the console filter                    *)
(* ---------------------------------------------------------------------- *)

\* A step that binds console.error or the saved original.
Rebinds ==
    \/ consoleError' # consoleError
    \/ originalConsoleError' # originalConsoleError

\* C40: console.error is replaced at most once: only a step that finds no
\* saved original binds console.error or the saved original, it saves the
\* native console.error and installs the filter; no later useConsoleFilter
\* call does, whatever the counter is, so the saved original is never the
\* filter; and a console.error call writes at most one line to the real
\* stream.
C40_InstalledOnce ==
    /\ [](originalConsoleError # "filtered")
    /\ []((originalConsoleError = "undefined") <=> (consoleError = "native"))
    /\ [][Rebinds =>
            /\ originalConsoleError = "undefined"
            /\ originalConsoleError' = "native"
            /\ consoleError' = "filtered"]_vars
    /\ [][/\ Len(stderr') <= Len(stderr) + 1
          /\ stderr' # stderr => Len(errors') = Len(errors) + 1]_vars

\* The counter has gone from 0 to 1 for the second time, the saved
\* original is the native console.error and a message that the filter let
\* through is on the real stream once.
C40_Witness ==
    /\ firstUses = 2
    /\ consoleFilterRefs = 1
    /\ originalConsoleError = "native"
    /\ consoleError = "filtered"
    /\ stderr = <<Logged(OtherError, "filtered")>>
    /\ errors = stderr

====
